---- MODULE Spec2Model ----
(***************************************************************************)
(* A model of kandown's YAML-backed task store (YamlTaskRepository in      *)
(* src/src/kandown/task_repo.py): the in-memory task list, the settings    *)
(* mapping, the id counter and the backing YAML file, with one action per  *)
(* public method of the store.                                             *)
(*                                                                         *)
(* Python values are tagged records: PyStr(chars) is a str (a sequence of  *)
(* one-character strings), PyInt(n) an int, PyList(q) a list, PyNone is    *)
(* None.  A dict is a function from its keys to values, so "k in d" is     *)
(* k \in DOMAIN d.                                                         *)
(***************************************************************************)
EXTENDS Integers, Sequences, FiniteSets, TLC

\* Bounds of the model.
MaxTasks == 2      \* save is explored while the store holds fewer tasks
MaxClock == 1      \* the clock is explored over the instants 0..MaxClock
MaxCounter == 2    \* generated ids are explored while counter <= MaxCounter
MaxLog == 3        \* SpecStatusLog explores this many status changes
MaxFresh == 11     \* SpecFresh explores this many saves into an empty store
MaxDocTasks == 2   \* SpecLoad opens documents with at most this many tasks
MaxFailed == 2     \* SpecWriteFail explores this many failed writes in a row

VARIABLES
    tasks,      \* self.tasks: the list of task dicts
    settings,   \* self.settings: the settings dict
    counter,    \* self.counter: the next numeric id suffix
    disk,       \* the file at self.yaml_path
    clock,      \* the instant datetime.datetime.now() reads
    last,       \* the last call: its name, what it returned, how often it persisted
    log,        \* what a specification keeps beside the store: a record of
                \* earlier calls, or the in-memory repository called along
    io          \* how the write in _save goes, and the temporary file it writes

vars == <<tasks, settings, counter, disk, clock, last, log, io>>

---------------------------------------------------------------------------
\* Python values.

PyStr(s) == [k |-> "str", v |-> s]
PyInt(n) == [k |-> "int", v |-> n]
PyList(q) == [k |-> "list", v |-> q]
PyNone == [k |-> "none", v |-> <<>>]

IsStr(x) == x.k = "str"

\* dict operations: d[key] = value, d.pop(key, None) / del d[key], d.update(u)
DictSet(d, key, value) ==
    [x \in DOMAIN d \cup {key} |-> IF x = key THEN value ELSE d[x]]
DictDel(d, key) == [x \in DOMAIN d \ {key} |-> d[x]]
DictUpdate(d, u) ==
    [x \in DOMAIN d \cup DOMAIN u |-> IF x \in DOMAIN u THEN u[x] ELSE d[x]]
\* d.get(key, default)
DictGet(d, key, default) == IF key \in DOMAIN d THEN d[key] ELSE default
EmptyDict == [x \in {} |-> PyNone]

---------------------------------------------------------------------------
\* Text: decimal digits, the id format and int().

DigitChars == <<"0", "1", "2", "3", "4", "5", "6", "7", "8", "9">>
DigitSet == {DigitChars[i] : i \in 1..10}
DigitChar(d) == DigitChars[d + 1]
DigitVal(c) == CHOOSE d \in 0..9 : DigitChars[d + 1] = c

\* str(n) for n >= 0
RECURSIVE Decimal(_)
Decimal(n) ==
    IF n < 10 THEN <<DigitChar(n)>>
    ELSE Decimal(n \div 10) \o <<DigitChar(n % 10)>>

\* the format spec 03d: pad with zeros on the left to a width of three
ZeroPad3(s) == IF Len(s) >= 3 THEN s ELSE [i \in 1..(3 - Len(s)) |-> "0"] \o s

\* f"K-{self.counter:03d}"
FormatId(n) == PyStr(<<"K", "-">> \o ZeroPad3(Decimal(n)))

\* datetime.datetime.now().isoformat(): the ISO-8601 text of the instant t,
\* written here as the number of the instant followed by the letter T.
IsoFormat(t) == PyStr(Decimal(t) \o <<"T">>)
Now == IsoFormat(clock)

\* s.strip() over the space character
RECURSIVE LStrip(_)
LStrip(s) == IF s # <<>> /\ Head(s) = " " THEN LStrip(Tail(s)) ELSE s
RECURSIVE RStrip(_)
RStrip(s) ==
    IF s # <<>> /\ s[Len(s)] = " " THEN RStrip(SubSeq(s, 1, Len(s) - 1)) ELSE s
Strip(s) == RStrip(LStrip(s))

\* digits, with single underscores allowed between them
IsDigitRun(s) ==
    /\ s # <<>>
    /\ \A i \in 1..Len(s) : s[i] \in DigitSet \cup {"_"}
    /\ s[1] # "_" /\ s[Len(s)] # "_"
    /\ \A i \in 1..(Len(s) - 1) : ~(s[i] = "_" /\ s[i + 1] = "_")

RECURSIVE DigitRunValue(_, _)
DigitRunValue(s, acc) ==
    IF s = <<>> THEN acc
    ELSE IF Head(s) = "_" THEN DigitRunValue(Tail(s), acc)
    ELSE DigitRunValue(Tail(s), acc * 10 + DigitVal(Head(s)))

\* int(s): [ok |-> FALSE] stands for ValueError
IntOfStr(s) ==
    LET t == Strip(s)
        signed == t # <<>> /\ t[1] \in {"+", "-"}
        body == IF signed THEN Tail(t) ELSE t
    IN  IF IsDigitRun(body)
        THEN [ok |-> TRUE,
              n |-> IF signed /\ t[1] = "-" THEN 0 - DigitRunValue(body, 0)
                    ELSE DigitRunValue(body, 0)]
        ELSE [ok |-> FALSE, n |-> 0]

\* tid.startswith("K-")
StartsWithK(s) == Len(s) >= 2 /\ s[1] = "K" /\ s[2] = "-"

\* _update_counter: the loop over self.tasks, carrying max_id
RECURSIVE MaxId(_, _)
MaxId(ts, max_id) ==
    IF ts = <<>> THEN max_id
    ELSE LET tid == DictGet(Head(ts), "id", PyStr(<<>>)).v
             num == IntOfStr(SubSeq(tid, 3, Len(tid)))
         IN  IF StartsWithK(tid) /\ num.ok /\ num.n > max_id
             THEN MaxId(Tail(ts), num.n)
             ELSE MaxId(Tail(ts), max_id)

\* _update_counter: the value it leaves in self.counter
UpdateCounter(ts) ==
    LET max_id == MaxId(ts, 0) IN IF max_id > 0 THEN max_id + 1 ELSE 1

\* _update_counter raises AttributeError when an id is not a str
UpdateCounterRaises(ts) ==
    \E i \in 1..Len(ts) : "id" \in DOMAIN ts[i] /\ ~IsStr(ts[i]["id"])

---------------------------------------------------------------------------
\* The YAML document: yaml.safe_dump and yaml.safe_load.
\* A scalar node carries its text and whether it is written plain or quoted;
\* the kind of a plain scalar is what the loader's implicit resolvers make of
\* its text.

PyBool(b) == [k |-> "bool", v |-> b]
PyFloat(s) == [k |-> "float", v |-> s]
PyDatetime(s) == [k |-> "datetime", v |-> s]

ScalarNode(style, text) == [n |-> "scalar", style |-> style, text |-> text]
SeqNode(items) == [n |-> "seq", items |-> items]
MapNode(entries) == [n |-> "map", entries |-> entries]

NullText == <<"n", "u", "l", "l">>
TrueText == <<"t", "r", "u", "e">>
FalseText == <<"f", "a", "l", "s", "e">>
YamlNullTexts == {<<>>, <<"~">>, NullText}
YamlTrueTexts == {TrueText, <<"y", "e", "s">>, <<"o", "n">>}
YamlFalseTexts == {FalseText, <<"n", "o">>, <<"o", "f", "f">>}

Unsigned(s) == IF s # <<>> /\ s[1] \in {"+", "-"} THEN Tail(s) ELSE s
AllIn(s, chars) == \A i \in 1..Len(s) : s[i] \in chars

\* the resolver's int pattern: [-+]?(0|[1-9][0-9_]*) or the octal [-+]?0[0-7_]+
IsYamlInt(s) ==
    LET u == Unsigned(s)
    IN  /\ u # <<>>
        /\ \/ u = <<"0">>
           \/ u[1] \in DigitSet \ {"0"} /\ AllIn(u, DigitSet \cup {"_"})
           \/ /\ u[1] = "0" /\ Len(u) >= 2
              /\ AllIn(u, {"0", "1", "2", "3", "4", "5", "6", "7", "_"})

\* the resolver's float pattern, in its form [-+]?[0-9][0-9_]*\.[0-9_]*
IsYamlFloat(s) ==
    LET u == Unsigned(s)
    IN  \E d \in 2..Len(u) :
            /\ u[d] = "."
            /\ u[1] \in DigitSet
            /\ AllIn(SubSeq(u, 1, d - 1), DigitSet \cup {"_"})
            /\ AllIn(SubSeq(u, d + 1, Len(u)), DigitSet \cup {"_"})

\* the resolver's timestamp pattern, over the texts IsoFormat writes
IsYamlTimestamp(s) ==
    Len(s) >= 2 /\ s[Len(s)] = "T" /\ AllIn(SubSeq(s, 1, Len(s) - 1), DigitSet)

\* Resolver.resolve for a plain scalar: the implicit resolvers are looked up
\* by the first character of the text and tried in the order they were added
BoolFirst == {"y", "Y", "n", "N", "t", "T", "f", "F", "o", "O"}
NumberFirst == {"-", "+"} \cup DigitSet
NullFirst == {"~", "n", "N"}
ResolveTag(s) ==
    IF s = <<>> THEN "null"
    ELSE IF s[1] \in BoolFirst /\ s \in YamlTrueTexts \cup YamlFalseTexts THEN "bool"
    ELSE IF s[1] \in NumberFirst /\ IsYamlFloat(s) THEN "float"
    ELSE IF s[1] \in NumberFirst /\ IsYamlInt(s) THEN "int"
    ELSE IF s[1] \in NullFirst /\ s \in YamlNullTexts THEN "null"
    ELSE IF s[1] \in DigitSet /\ IsYamlTimestamp(s) THEN "timestamp"
    ELSE "str"

\* SafeConstructor.construct_yaml_int over the decimal and octal forms
RECURSIVE OctalValue(_, _)
OctalValue(s, acc) ==
    IF s = <<>> THEN acc
    ELSE IF Head(s) = "_" THEN OctalValue(Tail(s), acc)
    ELSE OctalValue(Tail(s), acc * 8 + DigitVal(Head(s)))

ConstructInt(s) ==
    LET u == Unsigned(s)
        m == IF u[1] = "0" THEN OctalValue(u, 0) ELSE DigitRunValue(u, 0)
    IN  IF s[1] = "-" THEN 0 - m ELSE m

\* what the loader makes of a scalar node: a quoted scalar is a str; a plain
\* one loses the blanks around it and is constructed as its text resolves
ConstructScalar(node) ==
    IF node.style = "quoted" THEN PyStr(node.text)
    ELSE LET s == Strip(node.text)
             tag == ResolveTag(s)
         IN  CASE tag = "null" -> PyNone
               [] tag = "bool" -> PyBool(s \in YamlTrueTexts)
               [] tag = "int" -> PyInt(ConstructInt(s))
               [] tag = "float" -> PyFloat(s)
               [] tag = "timestamp" -> PyDatetime(s)
               [] OTHER -> PyStr(s)

\* Emitter.analyze_scalar: may this text be written as a plain scalar
IndicatorChars ==
    {"#", ",", "[", "]", "{", "}", "&", "*", "!", "|", ">", "%", "@"}
AllowPlain(s) ==
    /\ s # <<>>
    /\ s[1] # " " /\ s[Len(s)] # " "
    /\ s[1] \notin IndicatorChars
    /\ ~(s[1] \in {"-", "?", ":"} /\ (Len(s) = 1 \/ s[2] = " "))
    /\ \A i \in 1..(Len(s) - 1) :
           ~(s[i] = ":" /\ s[i + 1] = " ") /\ ~(s[i] = " " /\ s[i + 1] = "#")
    /\ s[Len(s)] # ":"

\* a dump that writes every str plain
RepresentScalar_AlwaysPlain(x) ==
    CASE x.k = "str" -> ScalarNode("plain", x.v)
      [] x.k = "int" ->
            ScalarNode("plain", IF x.v < 0 THEN <<"-">> \o Decimal(0 - x.v)
                                ELSE Decimal(x.v))
      [] x.k = "bool" -> ScalarNode("plain", IF x.v THEN TrueText ELSE FalseText)
      [] x.k = "none" -> ScalarNode("plain", NullText)

\* SafeRepresenter.represent_str and Emitter.choose_scalar_style: a str is
\* written plain only when the plain text would load as that same str
RepresentScalar(x) ==
    CASE x.k = "str" ->
            ScalarNode(IF ResolveTag(x.v) = "str" /\ AllowPlain(x.v)
                       THEN "plain" ELSE "quoted", x.v)
      [] x.k = "int" ->
            ScalarNode("plain", IF x.v < 0 THEN <<"-">> \o Decimal(0 - x.v)
                                ELSE Decimal(x.v))
      [] x.k = "bool" -> ScalarNode("plain", IF x.v THEN TrueText ELSE FalseText)
      [] x.k = "none" -> ScalarNode("plain", NullText)

RepresentValue(x) ==
    IF x.k = "list"
    THEN SeqNode([i \in 1..Len(x.v) |-> RepresentScalar(x.v[i])])
    ELSE RepresentScalar(x)

RepresentDict(d) == MapNode([key \in DOMAIN d |-> RepresentValue(d[key])])

ConstructValue(node) ==
    IF node.n = "seq"
    THEN PyList([i \in 1..Len(node.items) |-> ConstructScalar(node.items[i])])
    ELSE ConstructScalar(node)

ConstructDict(node) ==
    [key \in DOMAIN node.entries |-> ConstructValue(node.entries[key])]

\* The file at yaml_path: absent, a text given node by node, or the text that
\* _save wrote last, kept as the settings and tasks it dumped.
Absent == [n |-> "absent"]
File(head, root) == [n |-> "file", head |-> head, root |-> root]
Dumped(sett, ts) == [n |-> "dumped", settings |-> sett, tasks |-> ts]

\* a file that is there and cannot be read: open or yaml.safe_load raises on
\* it; stat says whether os.stat succeeds on its path (it does not when a
\* directory of the path may not be searched)
Unreadable(stat) == [n |-> "unreadable", stat |-> stat]

\* os.path.exists: False when the file is absent and when os.stat fails
Exists(file) == file.n # "absent" /\ (file.n = "unreadable" => file.stat)

\* _load: open and yaml.safe_load run only when os.path.exists said True, and
\* nothing catches what they raise
LoadRaises(file) == Exists(file) /\ file.n = "unreadable"

HeaderLines ==
    <<"# Project page: https://github.com/eruvanos/kandown",
      "# To open this file with uv, run: uv run --with git+https://github.com/eruvanos/kandown kandown demo.yml">>

\* _save: the text the atomic write leaves in the file, the two comment
\* lines and the dump of {"settings": self.settings, "tasks": self.tasks}
DumpDocument(sett, ts) ==
    File(HeaderLines,
         MapNode([key \in {"settings", "tasks"} |->
                     IF key = "settings"
                     THEN IF sett = PyNone THEN RepresentScalar(sett)
                          ELSE RepresentDict(sett)
                     ELSE SeqNode([i \in 1..Len(ts) |-> RepresentDict(ts[i])])]))

\* the text in a file
FileText(file) ==
    IF file.n = "dumped" THEN DumpDocument(file.settings, file.tasks) ELSE file

\* a load that takes a document whose root is a list for the list of tasks
LoadDocument_ListAsTasks(file) ==
    LET text == FileText(file)
    IN  IF text.n = "file" /\ text.root.n = "seq"
        THEN [settings |-> EmptyDict,
              tasks |-> [i \in 1..Len(text.root.items) |->
                            ConstructDict(text.root.items[i])]]
        ELSE [settings |-> EmptyDict, tasks |-> <<>>]

\* data.get(key, default) for a value of the document's mapping: a mapping
\* is a dict, a sequence a list of dicts, a scalar what it resolves to
\* (None for a key that is there without a value)
LoadedValue(node) ==
    CASE node.n = "map" -> ConstructDict(node)
      [] node.n = "seq" -> [i \in 1..Len(node.items) |-> ConstructDict(node.items[i])]
      [] OTHER -> ConstructScalar(node)

\* _load: the settings and tasks it leaves in the store
LoadDocument(file) ==
    LET text == FileText(file)
    IN  IF Exists(file) /\ text.n = "file" /\ text.root.n = "map"
        THEN [settings |->
                  IF "settings" \in DOMAIN text.root.entries
                  THEN LoadedValue(text.root.entries["settings"]) ELSE EmptyDict,
              tasks |->
                  IF "tasks" \in DOMAIN text.root.entries
                  THEN LoadedValue(text.root.entries["tasks"])
                  ELSE <<>>]
        ELSE [settings |-> EmptyDict, tasks |-> <<>>]

\* _load leaves in self.tasks a value that is no list: the document is a
\* mapping whose tasks key has a scalar for its value
TasksNotList(file) ==
    LET text == FileText(file)
    IN  /\ Exists(file) /\ text.n = "file" /\ text.root.n = "map"
        /\ "tasks" \in DOMAIN text.root.entries
        /\ text.root.entries["tasks"].n = "scalar"

---------------------------------------------------------------------------
\* The store.

Todo == PyStr(<<"t", "o", "d", "o">>)
Done == PyStr(<<"d", "o", "n", "e">>)

\* what a call leaves in last
Call(op, found, ret, saves) ==
    [op |-> op, found |-> found, ret |-> ret, saves |-> saves, raised |-> FALSE]

\* what a call that ends in an exception leaves in last
Raise(op) == [op |-> op, found |-> TRUE, ret |-> <<>>, saves |-> 0, raised |-> TRUE]

\* The write in _save.  io.mode says how the write goes: "whole", it is done
\* within the step of the call; "fails", it raises; "steps", it is followed
\* chunk by chunk.  While a write is followed, io.pc is "writing", io.temp is
\* what the temporary file of atomic_write holds, io.old the file as it was,
\* io.new the document being written and io.call what the call will return.
IoIdle(mode) ==
    [mode |-> mode, pc |-> "idle", temp |-> <<>>, old |-> Absent, new |-> Absent,
     call |-> Call("init", FALSE, <<>>, 0)]

\* a write that dumps the memory as it was before the call changed it
WriteWhole_Stale(op, ret) ==
    /\ disk' = Dumped(settings, tasks)
    /\ last' = Call(op, TRUE, ret, 1)
    /\ UNCHANGED io

\* _save when the write goes through: the file is the dump of the settings
\* and tasks in memory, and the call returns
WriteWhole(op, ret) ==
    /\ disk' = Dumped(settings', tasks')
    /\ last' = Call(op, TRUE, ret, 1)
    /\ UNCHANGED io

\* a file that holds only the first chunks of a document
Partial(chunks) == [n |-> "partial", chunks |-> chunks]

\* a failed write that leaves the file cut off at its start
WriteFails_Truncating(op) ==
    /\ disk' = Partial(<<>>)
    /\ last' = Raise(op)
    /\ UNCHANGED io

\* _save when the write raises: atomic_write drops its temporary file, the
\* file stays as it was and the exception leaves the call
WriteFails(op) ==
    /\ disk' = disk
    /\ last' = Raise(op)
    /\ UNCHANGED io

\* _save when the write is followed: atomic_write opens its temporary file
WriteBegins(op, ret) ==
    /\ io' = [io EXCEPT !.pc = "writing", !.temp = <<>>, !.old = disk,
                        !.new = Dumped(settings', tasks'),
                        !.call = Call(op, TRUE, ret, 1)]
    /\ UNCHANGED <<disk, last>>

\* the threads that serve requests on one store
Threads == {"t1", "t2"}
ThreadIdle == [pc |-> "idle", temp |-> Absent, call |-> Call("init", FALSE, <<>>, 0)]

\* _save when several threads call the store: a thread that is not in a
\* call has changed the memory and is about to enter _save; nothing makes it
\* wait for a thread that is already there
WriteByThread(op, ret) ==
    /\ \E t \in Threads :
           /\ io.thr[t].pc = "idle"
           /\ io' = [io EXCEPT !.thr[t] = [pc |-> "mutated", temp |-> Absent,
                                           call |-> Call(op, TRUE, ret, 1)]]
    /\ UNCHANGED <<disk, last>>

\* _save when two stores are open on the file: the store that is called,
\* io.cur, has changed its memory and is about to enter _save
WriteByInstance(op, ret) ==
    /\ io.thr[io.cur].pc = "idle"
    /\ io' = [io EXCEPT !.thr[io.cur] = [pc |-> "mutated", temp |-> Absent,
                                         call |-> Call(op, TRUE, ret, 1)]]
    /\ UNCHANGED <<disk, last>>

\* _save when the change event is followed: the call has changed the memory
\* and enters the atomic_write block; io.sets counts the times the event is
\* set in this call
WriteNotifying(op, ret) ==
    /\ io' = [io EXCEPT !.pc = "saving", !.new = Dumped(settings', tasks'),
                        !.call = Call(op, TRUE, ret, 1), !.sets = 0]
    /\ UNCHANGED <<disk, last>>

\* _save, called at the end of a mutating call with the memory already changed
Persist(op, ret) ==
    /\ io.pc = "idle"
    /\ CASE io.mode = "whole" -> WriteWhole(op, ret)
         [] io.mode = "fails" -> WriteFails(op)
         [] io.mode = "threads" -> WriteByThread(op, ret)
         [] io.mode = "instances" -> WriteByInstance(op, ret)
         [] io.mode = "notify" -> WriteNotifying(op, ret)
         [] OTHER -> WriteBegins(op, ret)

\* task["id"] == id, for the loops that look a task up (a task without an
\* id, which only a document written by hand can hold, matches no id)
HasId(task, id) == "id" \in DOMAIN task /\ task["id"] = id

\* a loop that runs to the end and keeps the last task it met with the id
FindFirst_Last(ts, id) ==
    IF \E i \in 1..Len(ts) : HasId(ts[i], id)
    THEN CHOOSE i \in 1..Len(ts) :
             HasId(ts[i], id) /\ \A j \in (i + 1)..Len(ts) : ~HasId(ts[j], id)
    ELSE 0

\* the index of the first task the loop stops at, 0 when it runs to the end
FindFirst(ts, id) ==
    IF \E i \in 1..Len(ts) : HasId(ts[i], id)
    THEN CHOOSE i \in 1..Len(ts) :
             HasId(ts[i], id) /\ \A j \in 1..(i - 1) : ~HasId(ts[j], id)
    ELSE 0

RemoveAt(ts, i) == SubSeq(ts, 1, i - 1) \o SubSeq(ts, i + 1, Len(ts))

\* a batch_update that returns every stored task
SelectTasks_All(ts, keep) == ts

RECURSIVE SelectTasks(_, _)
SelectTasks(ts, keep) ==
    IF ts = <<>> THEN <<>>
    ELSE (IF keep[1] THEN <<Head(ts)>> ELSE <<>>) \o SelectTasks(Tail(ts), Tail(keep))

\* __init__ where no file exists yet
Init ==
    /\ tasks = <<>>
    /\ settings = EmptyDict
    /\ counter = 1
    /\ disk = Absent
    /\ clock = 0
    /\ last = Call("init", FALSE, <<>>, 0)
    /\ log = <<>>
    /\ io = IoIdle("whole")

\* save: the timestamps of the stored record
SaveStamped(task, now) ==
    IF "id" \notin DOMAIN task
    THEN DictSet(DictSet(task, "created", now), "updated", now)
    ELSE DictSet(IF "created" \notin DOMAIN task
                 THEN DictSet(task, "created", now) ELSE task,
                 "updated", now)

\* save filling in a status for a task that comes without one
SaveClosed_DefaultStatus(task, now) ==
    LET t0 == IF "status" \notin DOMAIN task THEN DictSet(task, "status", Todo) ELSE task
        t1 == IF "closed" \in DOMAIN t0 /\ DictGet(t0, "status", PyNone) # Done
              THEN DictDel(t0, "closed") ELSE t0
    IN  IF DictGet(t1, "status", PyNone) = Done /\ "closed" \notin DOMAIN t1
        THEN DictSet(t1, "closed", now) ELSE t1

\* save: the closed field of the stored record
SaveClosed(task, now) ==
    LET t1 == IF "closed" \in DOMAIN task /\ DictGet(task, "status", PyNone) # Done
              THEN DictDel(task, "closed") ELSE task
    IN  IF DictGet(t1, "status", PyNone) = Done /\ "closed" \notin DOMAIN t1
        THEN DictSet(t1, "closed", now) ELSE t1

\* save: the id of the stored record
SaveId(task, n) ==
    IF "id" \notin DOMAIN task THEN DictSet(task, "id", FormatId(n)) ELSE task

\* save with the counter left as it was
SaveCounter_NoIncrement(task, n) == n

\* save: the counter after the call
SaveCounter(task, n) == IF "id" \notin DOMAIN task THEN n + 1 ELSE n

Save(task) ==
    LET stored == SaveId(SaveClosed(SaveStamped(task, Now), Now), counter)
    IN  /\ tasks' = Append(tasks, stored)
        /\ counter' = SaveCounter(task, counter)
        /\ UNCHANGED <<settings, clock>>
        /\ Persist("save", <<stored>>)

\* update_status with the closed field set only when it is missing and never
\* removed
StatusUpdated_KeepsClosed(task, status, now) ==
    IF status # PyNone
    THEN LET t1 == DictSet(DictSet(task, "status", status), "updated", now)
         IN  IF status = Done /\ "closed" \notin DOMAIN task
             THEN DictSet(t1, "closed", now)
             ELSE t1
    ELSE task

\* update_status with the closed field set anew by every call to done
StatusUpdated_Restamping(task, status, now) ==
    IF status # PyNone
    THEN LET previous_status == DictGet(task, "status", PyNone)
             t1 == DictSet(DictSet(task, "status", status), "updated", now)
         IN  IF status = Done
             THEN DictSet(t1, "closed", now)
             ELSE IF previous_status = Done
             THEN DictDel(t1, "closed")
             ELSE t1
    ELSE task

\* update_status: the record after the call
StatusUpdated(task, status, now) ==
    IF status # PyNone
    THEN LET previous_status == DictGet(task, "status", PyNone)
             t1 == DictSet(DictSet(task, "status", status), "updated", now)
         IN  IF status = Done /\ previous_status # Done
             THEN DictSet(t1, "closed", now)
             ELSE IF previous_status = Done /\ status # Done
             THEN DictDel(t1, "closed")
             ELSE t1
    ELSE task

\* update_text and update_tags with the field set and updated left alone
FieldUpdated_NoStamp(task, field, value, now) ==
    IF value # PyNone THEN DictSet(task, field, value) ELSE task

\* a list without the repetitions of its items
RECURSIVE Deduplicated(_)
Deduplicated(q) ==
    IF q = <<>> THEN <<>>
    ELSE LET front == Deduplicated(SubSeq(q, 1, Len(q) - 1))
         IN  IF \E j \in 1..Len(front) : front[j] = q[Len(q)]
             THEN front ELSE Append(front, q[Len(q)])

\* update_text and update_tags storing a list as a set of its items
FieldUpdated_Deduplicating(task, field, value, now) ==
    IF value # PyNone
    THEN DictSet(DictSet(task, field,
                         IF value.k = "list" THEN PyList(Deduplicated(value.v))
                         ELSE value),
                 "updated", now)
    ELSE task

\* update_text and update_tags: the record after the call
FieldUpdated(task, field, value, now) ==
    IF value # PyNone
    THEN DictSet(DictSet(task, field, value), "updated", now)
    ELSE task

\* update_order: the record after the call
OrderUpdated(task, order, now) ==
    DictSet(DictSet(task, "order", order), "updated", now)

\* a call that finds no task and still writes the document
NotFound_Persisting(op) ==
    /\ disk' = Dumped(settings, tasks)
    /\ last' = Call(op, FALSE, <<>>, 1)
    /\ UNCHANGED <<tasks, settings, counter, clock, io>>

\* update_status, update_text, update_tags, update_order and delete when the
\* loop ends without a match: None (False for delete) is returned
NotFound(op) ==
    /\ last' = Call(op, FALSE, <<>>, 0)
    /\ UNCHANGED <<tasks, settings, counter, disk, clock, io>>

\* an update that stamps every task of the store, not only the one found
Found_StampingAll(op, i, new) ==
    /\ tasks' = [j \in 1..Len(tasks) |->
                     IF j = i THEN new ELSE DictSet(tasks[j], "updated", Now)]
    /\ UNCHANGED <<settings, counter, clock>>
    /\ Persist(op, <<new>>)

\* update_status, update_text, update_tags and update_order at the first
\* task with the id, tasks[i]: the record is changed in place, the document
\* rewritten and the record returned
Found(op, i, new) ==
    /\ tasks' = [tasks EXCEPT ![i] = new]
    /\ UNCHANGED <<settings, counter, clock>>
    /\ Persist(op, <<new>>)

UpdateStatus(id, status) ==
    LET i == FindFirst(tasks, id)
    IN  IF i = 0 THEN NotFound("update_status")
        ELSE Found("update_status", i, StatusUpdated(tasks[i], status, Now))

UpdateText(id, text) ==
    LET i == FindFirst(tasks, id)
    IN  IF i = 0 THEN NotFound("update_text")
        ELSE Found("update_text", i, FieldUpdated(tasks[i], "text", text, Now))

UpdateTags(id, tags) ==
    LET i == FindFirst(tasks, id)
    IN  IF i = 0 THEN NotFound("update_tags")
        ELSE Found("update_tags", i, FieldUpdated(tasks[i], "tags", tags, Now))

UpdateOrder(id, order) ==
    LET i == FindFirst(tasks, id)
    IN  IF i = 0 THEN NotFound("update_order")
        ELSE Found("update_order", i, OrderUpdated(tasks[i], order, Now))

Delete(id) ==
    LET i == FindFirst(tasks, id)
    IN  IF i = 0
        THEN NotFound("delete")
        ELSE /\ tasks' = RemoveAt(tasks, i)
             /\ UNCHANGED <<settings, counter, clock>>
             /\ Persist("delete", <<>>)

\* batch_update: is the task one the loop body runs for
BatchHit(task, updates) ==
    task["id"] \in DOMAIN updates /\ DOMAIN updates[task["id"]] # {}

\* batch_update: the record after the loop body
BatchApplied(task, attrs, now) == DictSet(DictUpdate(task, attrs), "updated", now)

\* a batch_update that writes the document only when it updated a task
BatchUpdate_SkippingEmpty(updates) ==
    LET hit == [i \in 1..Len(tasks) |-> BatchHit(tasks[i], updates)]
    IN  IF \E i \in 1..Len(tasks) : hit[i]
        THEN /\ tasks' = [i \in 1..Len(tasks) |->
                             IF hit[i]
                             THEN BatchApplied(tasks[i], updates[tasks[i]["id"]], Now)
                             ELSE tasks[i]]
             /\ UNCHANGED <<settings, counter, clock>>
             /\ Persist("batch_update", SelectTasks(tasks', hit))
        ELSE /\ last' = Call("batch_update", TRUE, <<>>, 0)
             /\ UNCHANGED <<tasks, settings, counter, disk, clock, io>>

\* batch_update: the loop over the tasks, one _save after it, and the list
\* of the tasks the loop body ran for
BatchUpdate(updates) ==
    LET hit == [i \in 1..Len(tasks) |-> BatchHit(tasks[i], updates)]
    IN  /\ tasks' = [i \in 1..Len(tasks) |->
                        IF hit[i]
                        THEN BatchApplied(tasks[i], updates[tasks[i]["id"]], Now)
                        ELSE tasks[i]]
        /\ UNCHANGED <<settings, counter, clock>>
        /\ Persist("batch_update", SelectTasks(tasks', hit))

\* an update_settings that replaces the settings by the updates
SettingsUpdated_Replaced(sett, updates) == updates

\* update_settings: self.settings.update(updates)
SettingsUpdated(sett, updates) == DictUpdate(sett, updates)

\* update_settings: the settings are merged, written and returned; when
\* _load left None in self.settings, None.update raises AttributeError
UpdateSettings(updates) ==
    IF settings = PyNone
    THEN /\ last' = Raise("update_settings")
         /\ UNCHANGED <<tasks, settings, counter, disk, clock, io>>
    ELSE /\ settings' = SettingsUpdated(settings, updates)
         /\ UNCHANGED <<tasks, counter, clock>>
         /\ Persist("update_settings", <<settings'>>)

\* A new store on the same file: __init__ runs _load and _update_counter;
\* it raises when _load does and when _update_counter cannot loop over
\* self.tasks (TypeError for None).
Reload ==
    LET loaded == LoadDocument(disk)
    IN  IF LoadRaises(disk) \/ TasksNotList(disk)
        THEN /\ last' = Raise("load")
             /\ UNCHANGED <<tasks, settings, counter, disk, clock, io>>
        ELSE /\ ~UpdateCounterRaises(loaded.tasks)
             /\ tasks' = loaded.tasks
             /\ settings' = loaded.settings
             /\ counter' = UpdateCounter(loaded.tasks)
             /\ last' = Call("load", TRUE, <<>>, 0)
             /\ UNCHANGED <<disk, clock, io>>

\* Time passes between two calls.
Tick ==
    /\ clock < MaxClock
    /\ clock' = clock + 1
    /\ UNCHANGED <<tasks, settings, counter, disk, last, io>>

---------------------------------------------------------------------------
\* The calls explored.

TextA == PyStr(<<"a">>)
TagsX == PyList(<<PyStr(<<"x">>)>>)
Light == PyStr(<<"l", "i", "g", "h", "t">>)

\* an id no generated or supplied id equals (the tests use K-999)
MissingId == FormatId(999)
IdArgs == {FormatId(1), FormatId(2), MissingId}

SaveArgs ==
    { [text |-> TextA, tags |-> TagsX, order |-> PyInt(1), status |-> Todo],
      [text |-> TextA, tags |-> TagsX, order |-> PyInt(1), status |-> Done],
      [text |-> TextA, tags |-> TagsX, order |-> PyInt(1)],
      [id |-> FormatId(2), text |-> TextA, tags |-> TagsX, status |-> Todo] }

StatusArgs == {Todo, Done, PyNone}
TextArgs == {TextA, PyNone}
TagsArgs == {TagsX, PyNone}
OrderArgs == {PyInt(1)}

BatchAttrs ==
    { EmptyDict,
      [status |-> Done],
      [status |-> Todo],
      [id |-> FormatId(2)],
      [created |-> IsoFormat(0)] }

BatchArgs ==
    {[id \in {FormatId(1)} |-> attrs] : attrs \in BatchAttrs}
    \cup {[id \in {FormatId(2), MissingId} |-> [status |-> Done]]}

SettingsArgs == {[theme |-> Light]}

\* tasks saved without an id
FreshArgs ==
    { [text |-> TextA, status |-> Todo],
      [text |-> TextA, status |-> Done] }

\* save is explored while the store and the counter are within the bounds
CanSave(task) ==
    /\ Len(tasks) < MaxTasks
    /\ "id" \notin DOMAIN task => counter <= MaxCounter

\* The calls on the tasks of one store, and time passing between them.
Next ==
    \/ \E task \in SaveArgs : CanSave(task) /\ Save(task) /\ UNCHANGED log
    \/ \E id \in IdArgs, status \in StatusArgs :
           UpdateStatus(id, status) /\ UNCHANGED log
    \/ \E id \in IdArgs, text \in TextArgs : UpdateText(id, text) /\ UNCHANGED log
    \/ \E id \in IdArgs, tags \in TagsArgs : UpdateTags(id, tags) /\ UNCHANGED log
    \/ \E id \in IdArgs, order \in OrderArgs :
           UpdateOrder(id, order) /\ UNCHANGED log
    \/ \E id \in IdArgs : Delete(id) /\ UNCHANGED log
    \/ \E updates \in BatchArgs : BatchUpdate(updates) /\ UNCHANGED log
    \/ Tick /\ UNCHANGED log

Spec == Init /\ [][Next]_vars

---------------------------------------------------------------------------
\* The update_status calls of a store, one after the other: each call that
\* sets a status is logged with the instant it was made at and the closed
\* field of the task it returned.

Closed(task) == DictGet(task, "closed", PyNone)

LogEntry(id, status) ==
    [id |-> id, status |-> status, now |-> clock, found |-> last'.found,
     closed |-> IF last'.found THEN Closed(last'.ret[1]) ELSE PyNone]

StatusLogNext ==
    \/ \E task \in FreshArgs : Len(tasks) < MaxTasks /\ Save(task) /\ UNCHANGED log
    \/ \E id \in IdArgs, status \in StatusArgs :
           /\ UpdateStatus(id, status)
           /\ IF last'.found /\ status # PyNone
              THEN Len(log) < MaxLog /\ log' = Append(log, LogEntry(id, status))
              ELSE UNCHANGED log
    \/ Tick /\ UNCHANGED log

SpecStatusLog == Init /\ [][StatusLogNext]_vars

---------------------------------------------------------------------------
\* Tasks without an id saved one after the other into a fresh store.

FreshNext ==
    \/ \E task \in FreshArgs : Len(tasks) < MaxFresh /\ Save(task) /\ UNCHANGED log
    \/ Tick /\ UNCHANGED log

SpecFresh == Init /\ [][FreshNext]_vars

---------------------------------------------------------------------------
\* A store opened on a document that was written or edited by hand.

\* the ids found in such documents, as they stand in the text
DocIdTexts ==
    { <<"K", "-", "0", "0", "1">>, <<"K", "-", "0", "0", "3">>,
      <<"K", "-", "0", "1", "0">>, <<"K", "-", "7">>, <<"K", "-", "x">>,
      <<"X", "-", "5">>, <<"K", "-">>, <<"K", "-", "+", "2">>,
      <<"K", "-", " ", "4">>, <<"K", "-", "1", "_", "0">>,
      <<"K", "-", "-", "3">>, <<"7">> }

DocTasks ==
    { MapNode([key \in {"id"} |-> ScalarNode("plain", text)]) : text \in DocIdTexts }
        \cup { MapNode([key \in {"text"} |-> ScalarNode("plain", <<"a">>)]) }

RECURSIVE SeqsUpTo(_, _)
SeqsUpTo(S, n) ==
    IF n = 0 THEN {<<>>}
    ELSE LET shorter == SeqsUpTo(S, n - 1)
         IN  shorter \cup {Append(q, x) : q \in shorter, x \in S}

\* documents whose root is not a mapping: the "[]" the command line writes
\* into a new file, a list of tasks, an empty file, a lone word
NonMappings ==
    { File(<<>>, SeqNode(<<>>)),
      File(<<>>, SeqNode(<<MapNode([key \in {"id"} |->
                                       ScalarNode("plain", <<"K", "-", "0", "0", "3">>)])>>)),
      File(<<>>, ScalarNode("plain", <<>>)),
      File(<<>>, ScalarNode("plain", <<"a">>)) }

Documents ==
    { File(<<>>, MapNode([key \in {"tasks"} |-> SeqNode(items)])) :
          items \in SeqsUpTo(DocTasks, MaxDocTasks) }
        \cup NonMappings
        \cup {Absent, Unreadable(TRUE), Unreadable(FALSE)}

\* __init__ on one of the documents; when _load raises there is no store,
\* when _update_counter raises the case is left out
LoadInit ==
    \E doc \in Documents :
        LET loaded == LoadDocument(doc)
        IN  /\ disk = doc
            /\ clock = 0
            /\ log = <<>>
            /\ io = IoIdle("whole")
            /\ IF LoadRaises(doc)
               THEN /\ tasks = <<>>
                    /\ settings = EmptyDict
                    /\ counter = 1
                    /\ last = Raise("load")
               ELSE /\ ~UpdateCounterRaises(loaded.tasks)
                    /\ tasks = loaded.tasks
                    /\ settings = loaded.settings
                    /\ counter = UpdateCounter(loaded.tasks)
                    /\ last = Call("load", TRUE, <<>>, 0)

\* save is called on a store that was built, on a file that can be written
LoadNext ==
    \/ \E task \in FreshArgs :
           /\ Len(tasks) <= MaxDocTasks
           /\ ~last.raised /\ disk.n # "unreadable"
           /\ Save(task) /\ UNCHANGED log
    \/ Reload /\ UNCHANGED log

SpecLoad == LoadInit /\ [][LoadNext]_vars

---------------------------------------------------------------------------
\* Calls whose values put the dump and the load to the test: texts that read
\* as another kind when written plain, blanks, indicators, empty values.

DocTexts == { <<>>, <<"1", "2">> }

OffText == PyStr(<<"o", "f", "f">>)
DocTags == PyList(<<PyStr(<<"0", "1", "0">>), PyStr(<<"#", "x">>)>>)
DocIds == {FormatId(1), FormatId(2)}

DocSaveArgs == { [text |-> PyStr(t), status |-> Todo] : t \in DocTexts }

DocSettingsArgs ==
    { [theme |-> OffText], [theme |-> Light],
      [dark_mode |-> PyBool(TRUE), title |-> PyNone, columns |-> PyList(<<>>)] }

DocNext ==
    \/ \E task \in DocSaveArgs : CanSave(task) /\ Save(task) /\ UNCHANGED log
    \/ \E id \in DocIds : UpdateStatus(id, Done) /\ UNCHANGED log
    \/ \E id \in DocIds : UpdateText(id, PyStr(<<" ", "a">>)) /\ UNCHANGED log
    \/ \E id \in DocIds : UpdateTags(id, DocTags) /\ UNCHANGED log
    \/ \E id \in DocIds : UpdateOrder(id, PyInt(0 - 1)) /\ UNCHANGED log
    \/ \E id \in DocIds : Delete(id) /\ UNCHANGED log
    \/ \E id \in DocIds :
           BatchUpdate([i \in {id} |-> [text |-> PyStr(<<"a", ":", " ", "b">>)]])
               /\ UNCHANGED log
    \/ \E updates \in DocSettingsArgs : UpdateSettings(updates) /\ UNCHANGED log
    \/ Reload /\ UNCHANGED log

SpecDoc == Init /\ [][DocNext]_vars

---------------------------------------------------------------------------
\* The write of _save followed chunk by chunk, with crashes of the process.

\* what _save writes, in order: the two comment lines, then the dump, which
\* reaches the file as the settings part and the tasks part
Chunks == <<"comment 1", "comment 2", "settings", "tasks">>

\* a write that goes to the file itself
ChunkWritten_InPlace(file, temp, chunk) ==
    [file |-> Partial(Append(temp, chunk)), temp |-> Append(temp, chunk)]

\* f.write and yaml.safe_dump inside atomic_write: the chunk goes to the
\* temporary file and the file at yaml_path is not touched
ChunkWritten(file, temp, chunk) == [file |-> file, temp |-> Append(temp, chunk)]

WriteChunk ==
    /\ io.pc = "writing" /\ Len(io.temp) < Len(Chunks)
    /\ LET written == ChunkWritten(disk, io.temp, Chunks[Len(io.temp) + 1])
       IN  /\ disk' = written.file
           /\ io' = [io EXCEPT !.temp = written.temp]
    /\ UNCHANGED <<tasks, settings, counter, clock, last>>

\* the end of the atomic_write block: the temporary file is renamed onto the
\* file in one step, and the call returns
Commit ==
    /\ io.pc = "writing" /\ io.temp = Chunks
    /\ disk' = io.new
    /\ last' = io.call
    /\ io' = [io EXCEPT !.pc = "idle", !.temp = <<>>]
    /\ UNCHANGED <<tasks, settings, counter, clock>>

\* the process dies, between two calls or at any point of a write
Crash ==
    /\ io.pc \in {"idle", "writing"}
    /\ io' = [io EXCEPT !.pc = "crashed"]
    /\ UNCHANGED <<tasks, settings, counter, disk, clock, last>>

\* a new process constructs the store from the file
Restart ==
    /\ io.pc = "crashed"
    /\ LET loaded == LoadDocument(disk)
       IN  /\ tasks' = loaded.tasks
           /\ settings' = loaded.settings
           /\ counter' = UpdateCounter(loaded.tasks)
    /\ last' = Call("load", TRUE, <<>>, 0)
    /\ io' = [io EXCEPT !.pc = "idle", !.temp = <<>>]
    /\ UNCHANGED <<disk, clock>>

PersistInit ==
    /\ tasks = <<>>
    /\ settings = EmptyDict
    /\ counter = 1
    /\ disk = Absent
    /\ clock = 0
    /\ last = Call("init", FALSE, <<>>, 0)
    /\ log = <<>>
    /\ io = IoIdle("steps")

PersistNext ==
    \/ \E task \in FreshArgs : Len(tasks) < MaxTasks /\ Save(task) /\ UNCHANGED log
    \/ \E id \in DocIds : io.pc = "idle" /\ UpdateStatus(id, Done) /\ UNCHANGED log
    \/ \E id \in DocIds : io.pc = "idle" /\ Delete(id) /\ UNCHANGED log
    \/ \E updates \in SettingsArgs : UpdateSettings(updates) /\ UNCHANGED log
    \/ WriteChunk /\ UNCHANGED log
    \/ Commit /\ UNCHANGED log
    \/ Crash /\ UNCHANGED log
    \/ Restart /\ UNCHANGED log

SpecPersist == PersistInit /\ [][PersistNext]_vars

---------------------------------------------------------------------------
\* Calls on a store whose disk at times refuses the write.

\* the disk fills up, or the file becomes read-only: writes raise from now on
DiskFails ==
    /\ io.mode = "whole"
    /\ io' = [io EXCEPT !.mode = "fails"]
    /\ UNCHANGED <<tasks, settings, counter, disk, clock, last>>

\* writes go through again
DiskRecovers ==
    /\ io.mode = "fails"
    /\ io' = [io EXCEPT !.mode = "whole"]
    /\ UNCHANGED <<tasks, settings, counter, disk, clock, last>>

FailTexts == PyStr(<<"b">>)
FailBatch == [id \in {FormatId(1)} |-> [text |-> PyStr(<<"c">>)]]

\* log holds the calls that failed since the last write that went through
FailuresLogged ==
    /\ last'.raised => Len(log) < MaxFailed
    /\ log' = IF last'.raised THEN Append(log, last'.op)
              ELSE IF last'.saves = 1 THEN <<>> ELSE log

WriteFailNext ==
    \/ \E task \in FreshArgs : CanSave(task) /\ Save(task) /\ FailuresLogged
    \/ UpdateStatus(FormatId(1), Done) /\ FailuresLogged
    \/ UpdateText(FormatId(1), FailTexts) /\ FailuresLogged
    \/ UpdateTags(FormatId(1), TagsX) /\ FailuresLogged
    \/ UpdateOrder(FormatId(1), PyInt(1)) /\ FailuresLogged
    \/ \E id \in DocIds : Delete(id) /\ FailuresLogged
    \/ BatchUpdate(FailBatch) /\ FailuresLogged
    \/ \E updates \in SettingsArgs : UpdateSettings(updates) /\ FailuresLogged
    \/ DiskFails /\ UNCHANGED log
    \/ DiskRecovers /\ UNCHANGED log

SpecWriteFail == Init /\ [][WriteFailNext]_vars

---------------------------------------------------------------------------
\* Two threads of one process call the store.

\* yaml.safe_dump in the thread's atomic_write block: its temporary file
\* gets the settings and tasks as the memory has them at that moment
ThreadDumps(t) ==
    /\ io.thr[t].pc = "mutated"
    /\ io' = [io EXCEPT !.thr[t].pc = "dumped",
                        !.thr[t].temp = Dumped(settings, tasks)]
    /\ UNCHANGED <<tasks, settings, counter, disk, clock, last>>

\* a write that adds its tasks to those the file holds
ThreadCommits_Merging(t) ==
    /\ io.thr[t].pc = "dumped"
    /\ disk' = Dumped(io.thr[t].temp.settings,
                      LoadDocument(disk).tasks \o io.thr[t].temp.tasks)
    /\ last' = io.thr[t].call
    /\ io' = [io EXCEPT !.thr[t] = ThreadIdle]
    /\ UNCHANGED <<tasks, settings, counter, clock>>

\* the end of the thread's atomic_write block and of its call: its
\* temporary file replaces the file
ThreadCommits(t) ==
    /\ io.thr[t].pc = "dumped"
    /\ disk' = io.thr[t].temp
    /\ last' = io.thr[t].call
    /\ io' = [io EXCEPT !.thr[t] = ThreadIdle]
    /\ UNCHANGED <<tasks, settings, counter, clock>>

ThreadsInit ==
    /\ tasks = <<>>
    /\ settings = EmptyDict
    /\ counter = 1
    /\ disk = Absent
    /\ clock = 0
    /\ last = Call("init", FALSE, <<>>, 0)
    /\ log = <<>>
    /\ io = [mode |-> "threads", pc |-> "idle", thr |-> [t \in Threads |-> ThreadIdle]]

ThreadsNext ==
    \/ \E task \in FreshArgs : CanSave(task) /\ Save(task) /\ UNCHANGED log
    \/ \E status \in {Todo, Done} : UpdateStatus(FormatId(1), status) /\ UNCHANGED log
    \/ UpdateText(FormatId(1), FailTexts) /\ UNCHANGED log
    \/ \E id \in DocIds : Delete(id) /\ UNCHANGED log
    \/ \E t \in Threads : ThreadDumps(t) /\ UNCHANGED log
    \/ \E t \in Threads : ThreadCommits(t) /\ UNCHANGED log

SpecThreads == ThreadsInit /\ [][ThreadsNext]_vars

---------------------------------------------------------------------------
\* Two stores are open on the same file.  tasks, settings and counter are
\* the memory of the store io.cur, io.other holds the memory of the other.

Instances == {"a", "b"}
OtherOf(inst) == IF inst = "a" THEN "b" ELSE "a"

\* the memory of a store
MemoryOf(inst) ==
    IF inst = io.cur THEN [tasks |-> tasks, settings |-> settings, counter |-> counter]
    ELSE io.other

\* the next call goes to the other store
SwitchInstance ==
    /\ io' = [io EXCEPT !.cur = OtherOf(io.cur),
                        !.other = [tasks |-> tasks, settings |-> settings,
                                   counter |-> counter]]
    /\ tasks' = io.other.tasks
    /\ settings' = io.other.settings
    /\ counter' = io.other.counter
    /\ UNCHANGED <<disk, clock, last>>

\* the store that is called is not inside another call
InstanceFree == io.thr[io.cur].pc = "idle"

InstancesInit ==
    /\ tasks = <<>>
    /\ settings = EmptyDict
    /\ counter = 1
    /\ disk = Absent
    /\ clock = 0
    /\ last = Call("init", FALSE, <<>>, 0)
    /\ log = <<>>
    /\ io = [mode |-> "instances", pc |-> "idle", cur |-> "a",
             other |-> [tasks |-> <<>>, settings |-> EmptyDict, counter |-> 1],
             thr |-> [inst \in Instances |-> ThreadIdle]]

\* log holds the store whose write reached the file last
InstancesNext ==
    \/ \E task \in FreshArgs :
           Len(tasks) < MaxTasks /\ counter <= MaxCounter /\ Save(task) /\ UNCHANGED log
    \/ InstanceFree /\ UpdateStatus(FormatId(1), Done) /\ UNCHANGED log
    \/ InstanceFree /\ Delete(FormatId(1)) /\ UNCHANGED log
    \/ InstanceFree /\ Reload /\ UNCHANGED log
    \/ SwitchInstance /\ UNCHANGED log
    \/ ThreadDumps(io.cur) /\ UNCHANGED log
    \/ \E inst \in Instances : ThreadCommits(inst) /\ log' = <<inst>>

SpecInstances == InstancesInit /\ [][InstancesNext]_vars

---------------------------------------------------------------------------
\* The change event in _save.

\* the atomic_write block ends: the file is replaced
Replaced ==
    /\ io.pc = "saving"
    /\ disk' = io.new
    /\ io' = [io EXCEPT !.pc = "replaced"]
    /\ UNCHANGED <<tasks, settings, counter, clock, last>>

\* the atomic_write block raises: the file stays and the exception leaves
\* _save and the call before the event is touched
WriteAborts ==
    /\ io.pc = "saving"
    /\ last' = Raise(io.call.op)
    /\ io' = [io EXCEPT !.pc = "idle"]
    /\ UNCHANGED <<tasks, settings, counter, disk, clock>>

\* self.change_event.set()
SetEvent ==
    /\ io.pc = "replaced"
    /\ io' = [io EXCEPT !.pc = "set", !.event = TRUE, !.sets = @ + 1]
    /\ UNCHANGED <<tasks, settings, counter, disk, clock, last>>

\* a _save that returns with the event still set
ClearEvent_Missing ==
    /\ io.pc = "set"
    /\ last' = io.call
    /\ io' = [io EXCEPT !.pc = "idle"]
    /\ UNCHANGED <<tasks, settings, counter, disk, clock>>

\* self.change_event.clear(), after which _save and the call return
ClearEvent ==
    /\ io.pc = "set"
    /\ last' = io.call
    /\ io' = [io EXCEPT !.pc = "idle", !.event = FALSE]
    /\ UNCHANGED <<tasks, settings, counter, disk, clock>>

NotifyInit ==
    /\ tasks = <<>>
    /\ settings = EmptyDict
    /\ counter = 1
    /\ disk = Absent
    /\ clock = 0
    /\ last = Call("init", FALSE, <<>>, 0)
    /\ log = <<>>
    /\ io = [mode |-> "notify", pc |-> "idle", new |-> Absent,
             call |-> Call("init", FALSE, <<>>, 0), event |-> FALSE, sets |-> 0]

NotifyNext ==
    \/ \E task \in FreshArgs : CanSave(task) /\ Save(task) /\ UNCHANGED log
    \/ \E id \in IdArgs, status \in {Todo, Done} :
           io.pc = "idle" /\ UpdateStatus(id, status) /\ UNCHANGED log
    \/ \E id \in IdArgs : io.pc = "idle" /\ Delete(id) /\ UNCHANGED log
    \/ \E updates \in SettingsArgs : UpdateSettings(updates) /\ UNCHANGED log
    \/ Replaced /\ UNCHANGED log
    \/ WriteAborts /\ UNCHANGED log
    \/ SetEvent /\ UNCHANGED log
    \/ ClearEvent /\ UNCHANGED log

SpecNotify == NotifyInit /\ [][NotifyNext]_vars

---------------------------------------------------------------------------
\* Saves and updates at different instants.

\* batch updates of K-001: one of a plain field, one that carries a created
\* value
StampBatches ==
    { [id \in {FormatId(1)} |-> [text |-> FailTexts]],
      [id \in {FormatId(1)} |-> [created |-> IsoFormat(MaxClock)]] }

StampsNext ==
    \/ \E task \in FreshArgs : CanSave(task) /\ Save(task) /\ UNCHANGED log
    \/ \E id \in DocIds, status \in StatusArgs : UpdateStatus(id, status) /\ UNCHANGED log
    \/ \E id \in DocIds : UpdateText(id, FailTexts) /\ UNCHANGED log
    \/ \E id \in DocIds : UpdateTags(id, TagsX) /\ UNCHANGED log
    \/ \E id \in DocIds : UpdateOrder(id, PyInt(1)) /\ UNCHANGED log
    \/ \E updates \in StampBatches : BatchUpdate(updates) /\ UNCHANGED log
    \/ Tick /\ UNCHANGED log

SpecStamps == Init /\ [][StampsNext]_vars

---------------------------------------------------------------------------
\* The request models.  A request body is a dict of the fields it carries;
\* log holds the body that was validated last.

\* str_strip_whitespace: every string of the body is stripped
Stripped(value) == IF IsStr(value) THEN PyStr(Strip(value.v)) ELSE value

UpdateFields == {"status", "text", "tags", "order"}
CreateFields == {"text", "status", "tags", "order"}

\* is the value a str, a list, an int, or None where the field is Optional
FieldTypeOk(field, value, optional) ==
    \/ optional /\ value = PyNone
    \/ value.k = CASE field = "tags" -> "list" [] field = "order" -> "int" [] OTHER -> "str"

\* TaskUpdateRequest: no field is required, no other field is allowed, and a
\* text that is given has at least one character left after the strip
UpdateRequestValid(body) ==
    /\ DOMAIN body \subseteq UpdateFields
    /\ \A field \in DOMAIN body : FieldTypeOk(field, body[field], TRUE)
    /\ ("text" \in DOMAIN body /\ body["text"] # PyNone)
           => Len(Stripped(body["text"]).v) >= 1

\* the model TaskUpdateRequest builds: fields that were not given are None
UpdateRequestModel(body) ==
    [field \in UpdateFields |->
        IF field \in DOMAIN body THEN Stripped(body[field]) ELSE PyNone]

\* TaskCreateRequest: text and status are required strings of any length,
\* tags and order may be left out, no other field is allowed
CreateRequestValid(body) ==
    /\ DOMAIN body \subseteq CreateFields
    /\ {"text", "status"} \subseteq DOMAIN body
    /\ \A field \in DOMAIN body : FieldTypeOk(field, body[field], field = "order")

\* the model TaskCreateRequest builds: tags defaults to [], order to None
CreateRequestModel(body) ==
    [field \in CreateFields |->
        IF field \in DOMAIN body THEN Stripped(body[field])
        ELSE IF field = "tags" THEN PyList(<<>>) ELSE PyNone]

ValidateUpdate(body) ==
    /\ last' = IF UpdateRequestValid(body)
               THEN Call("TaskUpdateRequest", TRUE, <<UpdateRequestModel(body)>>, 0)
               ELSE Raise("TaskUpdateRequest")
    /\ log' = <<body>>
    /\ UNCHANGED <<tasks, settings, counter, disk, clock, io>>

ValidateCreate(body) ==
    /\ last' = IF CreateRequestValid(body)
               THEN Call("TaskCreateRequest", TRUE, <<CreateRequestModel(body)>>, 0)
               ELSE Raise("TaskCreateRequest")
    /\ log' = <<body>>
    /\ UNCHANGED <<tasks, settings, counter, disk, clock, io>>

\* the texts of the requests: empty, blank, a letter, a letter between blanks
RequestTexts == {PyStr(<<>>), PyStr(<<" ">>), PyStr(<<"a">>), PyStr(<<" ", "a", " ">>)}

UpdateBodies ==
    {[text |-> text] : text \in RequestTexts}
        \cup {[text |-> text, status |-> Done] : text \in RequestTexts}
        \cup {EmptyDict, [status |-> Done], [text |-> PyNone], [id |-> FormatId(1)]}

CreateBodies ==
    {[text |-> text, status |-> Todo] : text \in RequestTexts}
        \cup {[text |-> text, status |-> Todo, tags |-> TagsX] : text \in RequestTexts}
        \cup {[status |-> Todo], [status |-> Todo, tags |-> TagsX],
              [text |-> TextA], [text |-> TextA, tags |-> TagsX], EmptyDict,
              [text |-> TextA, status |-> Todo, id |-> FormatId(1)]}

RequestsNext ==
    \/ \E body \in UpdateBodies : ValidateUpdate(body)
    \/ \E body \in CreateBodies : ValidateCreate(body)
    \/ \E task \in FreshArgs : CanSave(task) /\ Save(task) /\ UNCHANGED log
    \/ \E id \in DocIds, text \in RequestTexts : UpdateText(id, text) /\ UNCHANGED log

SpecRequests == Init /\ [][RequestsNext]_vars

---------------------------------------------------------------------------
\* The command line.  io.pc is where main stands, io.exit the exit code of
\* the process once it has ended.

\* the exit code of a click command whose function returns
ReturnCode == 0
\* the exit code of a process that ends with an exception
ErrorCode == 1

\* main up to the test of os.path.exists(yaml_file)
CliChecksFile ==
    /\ io.pc = "start"
    /\ io' = [io EXCEPT !.pc = IF Exists(disk) THEN "starting" ELSE "asking"]
    /\ UNCHANGED <<tasks, settings, counter, disk, clock, last>>

\* click.confirm and what follows it: the file is written with "[]", or
\* main prints that it aborts and returns
CliConfirms(create) ==
    /\ io.pc = "asking"
    /\ IF create
       THEN /\ disk' = File(<<>>, SeqNode(<<>>))
            /\ io' = [io EXCEPT !.pc = "starting"]
       ELSE /\ disk' = disk
            /\ io' = [io EXCEPT !.pc = "exited", !.refused = TRUE, !.exit = ReturnCode]
    /\ UNCHANGED <<tasks, settings, counter, clock, last>>

\* create_app(yaml_file) and app.run: the store is built from the file and
\* the server runs; an exception of the load ends the process
CliStartsServer ==
    /\ io.pc = "starting"
    /\ LET loaded == LoadDocument(disk)
       IN  IF LoadRaises(disk) \/ UpdateCounterRaises(loaded.tasks)
           THEN /\ last' = Raise("load")
                /\ io' = [io EXCEPT !.pc = "exited", !.exit = ErrorCode]
                /\ UNCHANGED <<tasks, settings, counter>>
           ELSE /\ tasks' = loaded.tasks
                /\ settings' = loaded.settings
                /\ counter' = UpdateCounter(loaded.tasks)
                /\ last' = Call("load", TRUE, <<>>, 0)
                /\ io' = [io EXCEPT !.pc = "serving", !.served = TRUE]
    /\ UNCHANGED <<disk, clock>>

\* app.run returns: main returns
CliServerStops ==
    /\ io.pc = "serving"
    /\ io' = [io EXCEPT !.pc = "exited", !.exit = ReturnCode]
    /\ UNCHANGED <<tasks, settings, counter, disk, clock, last>>

CliInit ==
    /\ disk \in Documents
    /\ tasks = <<>>
    /\ settings = EmptyDict
    /\ counter = 1
    /\ clock = 0
    /\ last = Call("init", FALSE, <<>>, 0)
    /\ log = <<>>
    /\ io = [mode |-> "cli", pc |-> "start", refused |-> FALSE, served |-> FALSE,
             exit |-> 0 - 1]

CliNext ==
    \/ CliChecksFile /\ UNCHANGED log
    \/ \E create \in BOOLEAN : CliConfirms(create) /\ UNCHANGED log
    \/ CliStartsServer /\ UNCHANGED log
    \/ CliServerStops /\ UNCHANGED log

SpecCli == CliInit /\ [][CliNext]_vars

---------------------------------------------------------------------------
\* all() and a caller that changes the list it got.

\* an all() that hands out the list of the store itself
Snapshot_Same(ts) == [obj |-> "store", items |-> ts]

\* all: list(self.tasks), a new list object with the same items
Snapshot(ts) == [obj |-> "copy", items |-> ts]

All ==
    /\ last' = Call("all", TRUE, Snapshot(tasks), 0)
    /\ UNCHANGED <<tasks, settings, counter, disk, clock, io>>

\* the caller appends to the list all() returned; the list of the store
\* changes with it when it is the same object
CallerAppends(task) ==
    /\ last.op = "all"
    /\ Len(last.ret.items) <= MaxTasks
    /\ last' = [last EXCEPT !.ret.items = Append(@, task)]
    /\ tasks' = IF last.ret.obj = "store" THEN Append(tasks, task) ELSE tasks
    /\ UNCHANGED <<settings, counter, disk, clock, io>>

\* the caller removes the first item of the list all() returned
CallerRemoves ==
    /\ last.op = "all"
    /\ last.ret.items # <<>>
    /\ last' = [last EXCEPT !.ret.items = Tail(@)]
    /\ tasks' = IF last.ret.obj = "store" THEN Tail(tasks) ELSE tasks
    /\ UNCHANGED <<settings, counter, disk, clock, io>>

\* what the caller puts into its list
CallerTask == [id |-> MissingId, text |-> TextA]

\* the orders a board sends when two cards change places
SwapOrders == [id \in DocIds |-> [order |-> IF id = FormatId(1) THEN PyInt(2) ELSE PyInt(1)]]

\* log holds the ids of the stored tasks in the order their saves came
Inserted == log' = Append(log, last'.ret[1]["id"])
Removed(id) == log' = IF last'.found THEN SelectSeq(log, LAMBDA x : x # id) ELSE log

AllNext ==
    \/ \E task \in FreshArgs : CanSave(task) /\ Save(task) /\ Inserted
    \/ \E id \in DocIds : UpdateOrder(id, PyInt(1)) /\ UNCHANGED log
    \/ \E id \in DocIds, status \in {Todo, Done} :
           UpdateStatus(id, status) /\ UNCHANGED log
    \/ BatchUpdate(SwapOrders) /\ UNCHANGED log
    \/ \E id \in DocIds : Delete(id) /\ Removed(id)
    \/ Reload /\ UNCHANGED log
    \/ All /\ UNCHANGED log
    \/ CallerAppends(CallerTask) /\ UNCHANGED log
    \/ CallerRemoves /\ UNCHANGED log

SpecAll == Init /\ [][AllNext]_vars

---------------------------------------------------------------------------
\* get() between the calls that change the store.

\* a get that writes the document as the mutating calls do
Get_Persisting(id) ==
    LET i == FindFirst(tasks, id)
    IN  /\ last' = Call("get", i # 0, IF i = 0 THEN <<>> ELSE <<tasks[i]>>, 0)
        /\ disk' = Dumped(settings, tasks)
        /\ UNCHANGED <<tasks, settings, counter, clock, io>>

\* get: the first task with the id, None when the loop runs to the end
Get(id) ==
    LET i == FindFirst(tasks, id)
    IN  /\ last' = Call("get", i # 0, IF i = 0 THEN <<>> ELSE <<tasks[i]>>, 0)
        /\ UNCHANGED <<tasks, settings, counter, disk, clock, io>>

GetNext ==
    \/ \E task \in SaveArgs : CanSave(task) /\ Save(task) /\ UNCHANGED log
    \/ \E id \in IdArgs : UpdateStatus(id, Done) /\ UNCHANGED log
    \/ \E id \in IdArgs : Delete(id) /\ UNCHANGED log
    \/ \E id \in IdArgs : Get(id) /\ UNCHANGED log
    \/ Tick /\ UNCHANGED log

SpecGet == Init /\ [][GetNext]_vars

---------------------------------------------------------------------------
\* The in-memory TaskRepository of app.py, called along with the store.  log
\* holds its tasks, its counter and what its last call returned.

\* the tasks its constructor saves
SeedTasks ==
    <<
      [text |-> PyStr(<<"W", "r", "i", "t", "e", " ", "d", "o", "c", "u", "m", "e", "n", "t", "a", "t", "i", "o", "n">>),
       status |-> PyStr(<<"t", "o", "d", "o">>),
       tags |-> PyList(<<PyStr(<<"d", "o", "c", "s">>), PyStr(<<"w", "r", "i", "t", "i", "n", "g">>)>>)],
      [text |-> PyStr(<<"D", "e", "s", "i", "g", "n", " ", "U", "I", " ", "m", "o", "c", "k", "u", "p", "s">>),
       status |-> PyStr(<<"t", "o", "d", "o">>),
       tags |-> PyList(<<PyStr(<<"d", "e", "s", "i", "g", "n">>)>>)],
      [text |-> PyStr(<<"S", "e", "t", " ", "u", "p", " ", "C", "I", "/", "C", "D">>),
       status |-> PyStr(<<"t", "o", "d", "o">>),
       tags |-> PyList(<<PyStr(<<"d", "e", "v", "o", "p", "s">>)>>)],
      [text |-> PyStr(<<"I", "m", "p", "l", "e", "m", "e", "n", "t", " ", "m", "a", "r", "k", "d", "o", "w", "n", " ", "r", "e", "n", "d", "e", "r", "i", "n", "g">>),
       status |-> PyStr(<<"i", "n", "_", "p", "r", "o", "g", "r", "e", "s", "s">>),
       tags |-> PyList(<<PyStr(<<"b", "a", "c", "k", "e", "n", "d">>), PyStr(<<"m", "a", "r", "k", "d", "o", "w", "n">>)>>)],
      [text |-> PyStr(<<"A", "d", "d", " ", "C", "L", "I", " ", "o", "p", "t", "i", "o", "n", "s">>),
       status |-> PyStr(<<"i", "n", "_", "p", "r", "o", "g", "r", "e", "s", "s">>),
       tags |-> PyList(<<PyStr(<<"c", "l", "i">>)>>)],
      [text |-> PyStr(<<"I", "n", "i", "t", "i", "a", "l", "i", "z", "e", " ", "p", "r", "o", "j", "e", "c", "t">>),
       status |-> PyStr(<<"d", "o", "n", "e">>),
       tags |-> PyList(<<PyStr(<<"s", "e", "t", "u", "p">>)>>)],
      [text |-> PyStr(<<"C", "r", "e", "a", "t", "e", " ", "R", "E", "A", "D", "M", "E">>),
       status |-> PyStr(<<"d", "o", "n", "e">>),
       tags |-> PyList(<<PyStr(<<"d", "o", "c", "s">>)>>)]
    >>

\* save of the in-memory repository
MemSave(mem, task) ==
    LET stored == IF "id" \notin DOMAIN task
                  THEN DictSet(task, "id", FormatId(mem.counter)) ELSE task
    IN  [tasks |-> Append(mem.tasks, stored),
         counter |-> IF "id" \notin DOMAIN task THEN mem.counter + 1 ELSE mem.counter,
         ret |-> <<stored>>]

\* get of the in-memory repository
MemGet(mem, id) ==
    LET i == FindFirst(mem.tasks, id)
    IN  [mem EXCEPT !.ret = IF i = 0 THEN <<>> ELSE <<mem.tasks[i]>>]

\* all of the in-memory repository
MemAll(mem) == [mem EXCEPT !.ret = Snapshot(mem.tasks)]

\* the in-memory repository after its constructor
RECURSIVE MemSeeded(_)
MemSeeded(n) ==
    IF n = 0 THEN [tasks |-> <<>>, counter |-> 1, ret |-> <<>>]
    ELSE MemSave(MemSeeded(n - 1), SeedTasks[n])

\* the in-memory repository as constructed, and a store opened on a file
\* that holds the same tasks
MemInit ==
    /\ log = MemSeeded(Len(SeedTasks))
    /\ tasks = log.tasks
    /\ settings = EmptyDict
    /\ counter = UpdateCounter(tasks)
    /\ disk = Dumped(settings, tasks)
    /\ clock = 0
    /\ last = Call("load", TRUE, <<>>, 0)
    /\ io = IoIdle("whole")

MemIds == {FormatId(1), FormatId(Len(SeedTasks) + 1), MissingId}

MemNext ==
    \/ \E task \in FreshArgs :
           /\ Len(tasks) < Len(SeedTasks) + MaxTasks
           /\ Save(task) /\ log' = MemSave(log, task)
    \/ \E id \in MemIds : Get(id) /\ log' = MemGet(log, id)
    \/ All /\ log' = MemAll(log)
    \/ Tick /\ UNCHANGED log

SpecMem == MemInit /\ [][MemNext]_vars

---------------------------------------------------------------------------
\* Two threads of one process call save, followed statement by statement.
\* io.thr[t].pc is where the thread stands in save, io.thr[t].task its
\* local task and io.thr[t].read the counter it read for the increment.

SaverIdle == [pc |-> "idle", task |-> EmptyDict, read |-> 0]

\* the calls that have not returned
InSave == {t \in Threads : io.thr[t].pc # "idle"}

\* save up to the test for the id: the copy, the timestamps, the closed field
SaveEnters(t, task) ==
    /\ io.thr[t].pc = "idle"
    /\ "id" \notin DOMAIN task
    /\ Len(tasks) + Cardinality(InSave) < MaxTasks
    /\ io' = [io EXCEPT !.thr[t] = [pc |-> "stamped", read |-> 0,
                                    task |-> SaveClosed(SaveStamped(task, Now), Now)]]
    /\ UNCHANGED <<tasks, settings, counter, disk, clock, last>>

\* task["id"] = f"K-{self.counter:03d}"
SaveFormatsId(t) ==
    /\ io.thr[t].pc = "stamped"
    /\ io' = [io EXCEPT !.thr[t].pc = "named",
                        !.thr[t].task = SaveId(io.thr[t].task, counter)]
    /\ UNCHANGED <<tasks, settings, counter, disk, clock, last>>

\* self.counter += 1, the read of the attribute
SaveReadsCounter(t) ==
    /\ io.thr[t].pc = "named"
    /\ io' = [io EXCEPT !.thr[t].pc = "read", !.thr[t].read = counter]
    /\ UNCHANGED <<tasks, settings, counter, disk, clock, last>>

\* self.counter += 1, the store of the sum
SaveStoresCounter(t) ==
    /\ io.thr[t].pc = "read"
    /\ counter' = io.thr[t].read + 1
    /\ io' = [io EXCEPT !.thr[t].pc = "counted"]
    /\ UNCHANGED <<tasks, settings, disk, clock, last>>

\* self.tasks.append(task), _save and the return
SaveAppends(t) ==
    /\ io.thr[t].pc = "counted"
    /\ tasks' = Append(tasks, io.thr[t].task)
    /\ disk' = Dumped(settings, tasks')
    /\ last' = Call("save", TRUE, <<io.thr[t].task>>, 1)
    /\ io' = [io EXCEPT !.thr[t] = SaverIdle]
    /\ UNCHANGED <<settings, counter, clock>>

SaversInit ==
    /\ tasks = <<>>
    /\ settings = EmptyDict
    /\ counter = 1
    /\ disk = Absent
    /\ clock = 0
    /\ last = Call("init", FALSE, <<>>, 0)
    /\ log = <<>>
    /\ io = [mode |-> "savers", pc |-> "idle", thr |-> [t \in Threads |-> SaverIdle]]

SaversNext ==
    \/ \E t \in Threads, task \in FreshArgs : SaveEnters(t, task) /\ UNCHANGED log
    \/ \E t \in Threads : SaveFormatsId(t) /\ UNCHANGED log
    \/ \E t \in Threads : SaveReadsCounter(t) /\ UNCHANGED log
    \/ \E t \in Threads : SaveStoresCounter(t) /\ UNCHANGED log
    \/ \E t \in Threads : SaveAppends(t) /\ UNCHANGED log
    \/ Tick /\ UNCHANGED log

SpecSavers == SaversInit /\ [][SaversNext]_vars

---------------------------------------------------------------------------
\* Saves without an id, deletes and new stores on the same file.  log holds
\* the ids that save has generated, in the order it generated them.

IdLogNext ==
    \/ \E task \in FreshArgs :
           /\ CanSave(task) /\ Len(log) < MaxLog
           /\ Save(task)
           /\ log' = Append(log, last'.ret[1]["id"])
    \/ \E id \in {FormatId(1), FormatId(2)} : Delete(id) /\ UNCHANGED log
    \/ Reload /\ UNCHANGED log
    \/ Tick /\ UNCHANGED log

SpecIdLog == Init /\ [][IdLogNext]_vars

---------------------------------------------------------------------------
\* Stores built on documents that are mappings with the settings or the
\* tasks key left out or left without a value.

\* a key without a value ("tasks:"), with null and with ~
NullNodes ==
    { ScalarNode("plain", <<>>), ScalarNode("plain", NullText),
      ScalarNode("plain", <<"~">>) }

KeyedTasksNodes ==
    NullNodes \cup
    { SeqNode(<<>>),
      SeqNode(<<MapNode([key \in {"id"} |->
                            ScalarNode("plain", <<"K", "-", "0", "0", "1">>)])>>) }

KeyedSettingsNodes ==
    NullNodes \cup
    { MapNode(EmptyDict),
      MapNode([key \in {"theme"} |-> ScalarNode("plain", Light.v)]) }

KeyedDocuments ==
    { File(<<>>, MapNode([key \in keys |->
                             IF key = "tasks" THEN tasks_node ELSE settings_node])) :
          keys \in SUBSET {"settings", "tasks"},
          tasks_node \in KeyedTasksNodes, settings_node \in KeyedSettingsNodes }

\* __init__ on one of the documents; when _update_counter raises there is
\* no store
KeyedInit ==
    \E doc \in KeyedDocuments :
        LET loaded == LoadDocument(doc)
        IN  /\ disk = doc
            /\ clock = 0
            /\ log = <<>>
            /\ io = IoIdle("whole")
            /\ IF TasksNotList(doc)
               THEN /\ tasks = <<>>
                    /\ settings = EmptyDict
                    /\ counter = 1
                    /\ last = Raise("load")
               ELSE /\ tasks = loaded.tasks
                    /\ settings = loaded.settings
                    /\ counter = UpdateCounter(loaded.tasks)
                    /\ last = Call("load", TRUE, <<>>, 0)

\* __init__ returned a store
Constructed == ~(last.op = "load" /\ last.raised)

KeyedNext ==
    \/ Constructed /\ All /\ UNCHANGED log
    \/ \E task \in FreshArgs :
           /\ Constructed /\ Len(tasks) < MaxDocTasks
           /\ Save(task) /\ UNCHANGED log
    \/ \E updates \in SettingsArgs :
           Constructed /\ UpdateSettings(updates) /\ UNCHANGED log
    \/ Reload /\ UNCHANGED log
    \/ Tick /\ UNCHANGED log

SpecKeyed == KeyedInit /\ [][KeyedNext]_vars

---------------------------------------------------------------------------
\* The calls followed statement by statement: the loop over self.tasks,
\* then _save.  io.op is the call that runs, io.i the number of tasks its
\* loop has passed, io.now the instant it read at its start, io.ret what
\* it has collected to return and io.event the flag of change_event.

CallIdle ==
    [mode |-> "calls", pc |-> "idle", op |-> "init", id |-> PyNone,
     updates |-> EmptyDict, i |-> 0, now |-> Now, ret |-> <<>>, event |-> FALSE]

\* the first statements of get, update_text, delete and batch_update, up to
\* the for
CallBegins(op, id, updates) ==
    /\ io.pc = "idle"
    /\ io' = [io EXCEPT !.pc = "loop", !.op = op, !.id = id, !.updates = updates,
                        !.i = 0, !.now = Now, !.ret = <<>>]
    /\ UNCHANGED <<tasks, settings, counter, disk, clock, last>>

\* the return of a call that has not written
CallReturns(found, ret) ==
    /\ last' = Call(io.op, found, ret, 0)
    /\ io' = [io EXCEPT !.pc = "idle"]
    /\ UNCHANGED <<tasks, settings, counter, disk, clock>>

\* the for goes on to the next task: this one is not the one looked for
\* (batch_update: has no attributes to apply)
LoopAdvances(task) ==
    /\ io' = [io EXCEPT !.i = io.i + 1]
    /\ UNCHANGED <<tasks, settings, counter, disk, clock, last>>

\* the body of the for on the task the call is about
LoopBody(task) ==
    CASE io.op = "get" -> CallReturns(TRUE, <<task>>)
      [] io.op = "update_text" ->
             LET new == FieldUpdated(task, "text", TextA, io.now)
             IN  /\ tasks' = [tasks EXCEPT ![io.i + 1] = new]
                 /\ io' = [io EXCEPT !.pc = "save", !.ret = <<new>>]
                 /\ UNCHANGED <<settings, counter, disk, clock, last>>
      [] io.op = "delete" ->
             /\ tasks' = RemoveAt(tasks, io.i + 1)
             /\ io' = [io EXCEPT !.pc = "save"]
             /\ UNCHANGED <<settings, counter, disk, clock, last>>
      [] OTHER ->
             LET new == BatchApplied(task, io.updates[task["id"]], io.now)
             IN  /\ tasks' = [tasks EXCEPT ![io.i + 1] = new]
                 /\ io' = [io EXCEPT !.i = io.i + 1, !.ret = Append(io.ret, new)]
                 /\ UNCHANGED <<settings, counter, disk, clock, last>>

\* one turn of the for, or its end: batch_update goes on to _save, the
\* other calls return None (False for delete)
LoopStep ==
    /\ io.pc = "loop"
    /\ IF io.i < Len(tasks)
       THEN LET task == tasks[io.i + 1]
                hit == IF io.op = "batch_update" THEN BatchHit(task, io.updates)
                       ELSE HasId(task, io.id)
            IN  IF hit THEN LoopBody(task) ELSE LoopAdvances(task)
       ELSE IF io.op = "batch_update"
            THEN /\ io' = [io EXCEPT !.pc = "save"]
                 /\ UNCHANGED <<tasks, settings, counter, disk, clock, last>>
            ELSE CallReturns(FALSE, <<>>)

\* a _save that writes once another call has set the event
SaveWrites_AwaitingEvent ==
    /\ io.pc = "save"
    /\ io.event
    /\ disk' = Dumped(settings, tasks)
    /\ io' = [io EXCEPT !.pc = "set"]
    /\ UNCHANGED <<tasks, settings, counter, clock, last>>

\* _save: the atomic_write block
SaveWrites ==
    /\ io.pc = "save"
    /\ disk' = Dumped(settings, tasks)
    /\ io' = [io EXCEPT !.pc = "set"]
    /\ UNCHANGED <<tasks, settings, counter, clock, last>>

\* _save: self.change_event.set()
SaveSetsEvent ==
    /\ io.pc = "set"
    /\ io' = [io EXCEPT !.pc = "clear", !.event = TRUE]
    /\ UNCHANGED <<tasks, settings, counter, disk, clock, last>>

\* _save: self.change_event.clear(), and the return of the call
SaveClearsEvent ==
    /\ io.pc = "clear"
    /\ last' = Call(io.op, TRUE, io.ret, 1)
    /\ io' = [io EXCEPT !.pc = "idle", !.event = FALSE]
    /\ UNCHANGED <<tasks, settings, counter, disk, clock>>

\* the tasks save leaves in a store
StoredTasks ==
    { SaveId(SaveClosed(SaveStamped(task, IsoFormat(0)), IsoFormat(0)), n) :
          task \in FreshArgs, n \in 1..2 }

\* a store that holds some tasks, with no call running
CallsInit ==
    /\ tasks \in SeqsUpTo(StoredTasks, MaxTasks)
    /\ settings = EmptyDict
    /\ counter = UpdateCounter(tasks)
    /\ disk = Dumped(settings, tasks)
    /\ clock = 0
    /\ last = Call("init", FALSE, <<>>, 0)
    /\ log = <<>>
    /\ io = CallIdle

\* the statements of the call that runs
CallRuns ==
    /\ LoopStep \/ SaveWrites \/ SaveSetsEvent \/ SaveClearsEvent
    /\ UNCHANGED log

CallsNext ==
    \/ \E op \in {"get", "update_text", "delete"}, id \in IdArgs :
           CallBegins(op, id, EmptyDict) /\ UNCHANGED log
    \/ \E updates \in BatchArgs \cup {[id \in {FormatId(1), FormatId(2)} |-> [status |-> Done]]} :
           CallBegins("batch_update", PyNone, updates) /\ UNCHANGED log
    \/ LoopStep /\ UNCHANGED log
    \/ SaveWrites /\ UNCHANGED log
    \/ SaveSetsEvent /\ UNCHANGED log
    \/ SaveClearsEvent /\ UNCHANGED log
    \/ Tick /\ UNCHANGED log

\* a thread that is in a call is scheduled again and again, and none of its
\* statements waits
SpecCalls == CallsInit /\ [][CallsNext]_vars /\ WF_vars(CallRuns)

---------------------------------------------------------------------------
\* update_tags with lists that repeat a tag, that differ only in the order
\* of their tags, and with the empty list.

TagA == PyStr(<<"a">>)
TagB == PyStr(<<"b">>)

TagLists ==
    { PyList(<<>>), PyList(<<TagA, TagB>>), PyList(<<TagB, TagA>>),
      PyList(<<TagA, TagA>>), PyList(<<TagB, TagA, TagB>>) }

TagsNext ==
    \/ \E task \in {[text |-> TextA, status |-> Todo, tags |-> PyList(<<TagA>>)]} :
           CanSave(task) /\ Save(task) /\ UNCHANGED log
    \/ \E id \in IdArgs, tags \in TagLists \cup {PyNone} :
           UpdateTags(id, tags) /\ UNCHANGED log
    \/ Reload /\ UNCHANGED log
    \/ Tick /\ UNCHANGED log

SpecTags == Init /\ [][TagsNext]_vars

---------------------------------------------------------------------------
\* Properties of the task calls.

Status(task) == DictGet(task, "status", PyNone)
IdsOf(ts) == [i \in 1..Len(ts) |-> ts[i]["id"]]
CreatedOf(ts) == [i \in 1..Len(ts) |-> ts[i]["created"]]

\* C1: every stored task has a closed field if and only if its status is done.
C1_ClosedIffDone ==
    \A i \in 1..Len(tasks) : ("closed" \in DOMAIN tasks[i]) <=> (Status(tasks[i]) = Done)

\* the logged calls that set a status on the task with this id
StatusChanges(id) ==
    LET Sets(e) == e.id = id /\ e.found /\ e.status # PyNone
    IN  SelectSeq(log, Sets)

\* three status changes of one task in a row: to done, away from it, to done
Reopened(c, n) ==
    /\ n + 2 <= Len(c)
    /\ c[n].status = Done /\ c[n + 1].status # Done /\ c[n + 2].status = Done

\* C2: when update_status takes a task to done, then to another status, then
\* to done again, the closed field is gone in between and is then the instant
\* of the second call to done, which is not the first closed value when the
\* clock has advanced.
C2_ClosedRefreshed ==
    \A id \in IdArgs :
        LET c == StatusChanges(id)
        IN  \A n \in 1..Len(c) :
                Reopened(c, n) =>
                    /\ c[n + 1].closed = PyNone
                    /\ c[n + 2].closed = IsoFormat(c[n + 2].now)
                    /\ c[n].now < c[n + 2].now => c[n + 2].closed # c[n].closed

\* A task was closed, reopened and closed again at a later instant.
C2_Witness ==
    \E id \in IdArgs :
        LET c == StatusChanges(id)
        IN  /\ Reopened(c, 1)
            /\ c[1].closed # PyNone
            /\ c[1].now < c[3].now
            /\ \E i \in 1..Len(tasks) : HasId(tasks[i], id) /\ Closed(tasks[i]) = c[3].closed

\* C3: no two tasks in the store have the same id.
C3_UniqueIds ==
    \A i, j \in 1..Len(tasks) : i # j => tasks[i]["id"] # tasks[j]["id"]

\* The calls that neither add nor remove a task.
IsUpdateCall ==
    \/ \E id \in IdArgs, status \in StatusArgs : UpdateStatus(id, status)
    \/ \E id \in IdArgs, text \in TextArgs : UpdateText(id, text)
    \/ \E id \in IdArgs, tags \in TagsArgs : UpdateTags(id, tags)
    \/ \E id \in IdArgs, order \in OrderArgs : UpdateOrder(id, order)
    \/ \E updates \in BatchArgs : BatchUpdate(updates)

\* what a sequence of per-task values is after a delete call: the same, or
\* the same without one entry
AfterDelete(before, after) ==
    \/ after = before
    \/ \E i \in 1..Len(before) : after = RemoveAt(before, i)

\* C4: no update call changes the id of a stored task, and a delete leaves the
\* ids of the tasks it does not remove as they were.
C4_IdImmutable ==
    [][/\ IsUpdateCall => IdsOf(tasks') = IdsOf(tasks)
       /\ (\E id \in IdArgs : Delete(id)) => AfterDelete(IdsOf(tasks), IdsOf(tasks'))]_vars

\* C5: no update call changes the created value of a stored task, and a
\* delete leaves the created values of the tasks it does not remove as they were.
C5_CreatedImmutable ==
    [][/\ IsUpdateCall => CreatedOf(tasks') = CreatedOf(tasks)
       /\ (\E id \in IdArgs : Delete(id))
              => AfterDelete(CreatedOf(tasks), CreatedOf(tasks'))]_vars

\* The target of a call with this id: the first task that has it, 0 for none.
Target(id) == FindFirst(tasks, id)
Updated(task) == task["updated"]

\* The step is the call op(id, arg) and the call found its task.
StatusCall(id, status) == last'.op = "update_status" /\ last'.found /\ UpdateStatus(id, status)
TextCall(id, text) == last'.op = "update_text" /\ last'.found /\ UpdateText(id, text)
TagsCall(id, tags) == last'.op = "update_tags" /\ last'.found /\ UpdateTags(id, tags)
OrderCall(id, order) == last'.op = "update_order" /\ last'.found /\ UpdateOrder(id, order)
BatchCall(updates) == last'.op = "batch_update" /\ BatchUpdate(updates)

ThreeDigitId(n) ==
    PyStr(<<"K", "-", DigitChar(n \div 100), DigitChar((n \div 10) % 10),
            DigitChar(n % 10)>>)

\* C7: the tasks saved without an id into a fresh store have, in the order
\* they were saved, the ids K-001, K-002, ... (the number of the save, padded
\* with zeros to three digits).
C7_SequentialIds ==
    /\ \A i \in 1..Len(tasks) : tasks[i]["id"] = ThreeDigitId(i)
    /\ counter = Len(tasks) + 1

\* Ten tasks were saved: the first is K-001, the ninth K-009, the tenth K-010.
C7_Witness ==
    /\ Len(tasks) = 10 /\ last.op = "save"
    /\ tasks[1]["id"] = PyStr(<<"K", "-", "0", "0", "1">>)
    /\ tasks[9]["id"] = PyStr(<<"K", "-", "0", "0", "9">>)
    /\ tasks[10]["id"] = PyStr(<<"K", "-", "0", "1", "0">>)
    /\ last.ret[1] = tasks[10]

\* the largest number in S, 0 when S has none above 0
MaxOf(S) == CHOOSE m \in S \cup {0} : \A n \in S \cup {0} : n <= m

\* the text that follows K- in the ids that start with K-
Suffixes(ts) ==
    { SubSeq(ts[i]["id"].v, 3, Len(ts[i]["id"].v)) :
          i \in { j \in 1..Len(ts) : "id" \in DOMAIN ts[j] /\ StartsWithK(ts[j]["id"].v) } }

\* the numbers of the ids of the form K-<digits>
DigitSuffixes(ts) ==
    { DigitRunValue(s, 0) : s \in { t \in Suffixes(ts) : t # <<>> /\ AllIn(t, DigitSet) } }

\* the numbers int() reads from the text that follows K-
ParsedSuffixes(ts) ==
    { IntOfStr(s).n : s \in { t \in Suffixes(ts) : IntOfStr(t).ok } }

\* the task the last save appended has an id no earlier task has
NewIdIsNew ==
    \A i \in 1..(Len(tasks) - 1) :
        "id" \in DOMAIN tasks[i] => tasks[i]["id"] # tasks[Len(tasks)]["id"]

\* C8: after a load the counter is one more than the largest number among
\* the ids of the form K-<digits>, and 1 when there is none.
C8_CounterFromDigitIds ==
    last.op = "load" => counter = 1 + MaxOf(DigitSuffixes(tasks))

\* What _update_counter leaves instead: one more than the largest positive
\* number that int() reads from the text following K-, which is above the
\* number of every id of the form K-<digits>; the id the next save generates
\* is not among the ids present.
CounterFromParsedIds ==
    /\ last.op = "load" =>
           /\ counter = 1 + MaxOf(ParsedSuffixes(tasks))
           /\ \A n \in DigitSuffixes(tasks) : counter > n
           /\ \A i \in 1..Len(tasks) :
                  "id" \in DOMAIN tasks[i] => tasks[i]["id"] # FormatId(counter)
    /\ last.op = "save" => NewIdIsNew

\* C9: once the store has written its document, a new store constructed from
\* the file has the same tasks, with the same fields and in the same order,
\* and the same settings as the store in memory.
C9_RoundTrip ==
    disk # Absent =>
        /\ LoadDocument(disk).tasks = tasks
        /\ LoadDocument(disk).settings = settings

\* The store holds texts that would read as a number, a bool or a date when
\* written plain, lists, None and a bool, and the store read back from the
\* file equals it.
C9_Witness ==
    /\ Len(tasks) = 2
    /\ tasks[1]["text"] = PyStr(<<"1", "2">>)
    /\ "tags" \in DOMAIN tasks[2] /\ tasks[2]["tags"] = DocTags
    /\ DOMAIN settings = {"theme", "dark_mode", "title", "columns"}
    /\ settings["theme"] = OffText /\ settings["title"] = PyNone
    /\ last.op = "update_settings"
    /\ LoadDocument(disk) = [settings |-> settings, tasks |-> tasks]

\* C10: update_status, update_text, update_tags, update_order and delete with
\* an id no stored task has return the not-found signal, leave tasks, settings
\* and counter as they were and do not write the document.
C10_NotFoundNoEffect ==
    [][\A id \in IdArgs :
           /\ Target(id) = 0
           /\ \/ \E status \in StatusArgs : UpdateStatus(id, status)
              \/ \E text \in TextArgs : UpdateText(id, text)
              \/ \E tags \in TagsArgs : UpdateTags(id, tags)
              \/ \E order \in OrderArgs : UpdateOrder(id, order)
              \/ Delete(id)
           => /\ ~last'.found /\ last'.ret = <<>> /\ last'.saves = 0
              /\ UNCHANGED <<tasks, settings, counter, disk>>]_vars

\* A delete of an id that is not there was made on a store that holds a task
\* and has a document.
C10_Witness ==
    /\ last.op = "delete" /\ ~last.found
    /\ tasks # <<>> /\ disk # Absent

---------------------------------------------------------------------------
\* Properties of batch_update.

\* the positions of the stored tasks batch_update runs its loop body for:
\* the id is a key of the mapping and the dict under it is not empty
MutatedBy(updates) ==
    { i \in 1..Len(tasks) :
          tasks[i]["id"] \in DOMAIN updates /\ updates[tasks[i]["id"]] # EmptyDict }

\* the k-th smallest member of a set of positions
KthOf(S, k) == CHOOSE i \in S : Cardinality({j \in S : j <= i}) = k

\* C11: batch_update changes only stored tasks whose id is a key of the
\* mapping; keys that name no stored task add no task; the list returned
\* holds exactly the tasks the call mutated, in store order.
C11_BatchOnlyPresentKeys ==
    [][\A updates \in BatchArgs :
           BatchCall(updates) =>
               LET hit == MutatedBy(updates)
               IN  /\ Len(tasks') = Len(tasks)
                   /\ \A i \in 1..Len(tasks) :
                          tasks'[i] # tasks[i] => tasks[i]["id"] \in DOMAIN updates
                   /\ \A i \in 1..Len(tasks) : i \notin hit => tasks'[i] = tasks[i]
                   /\ Len(last'.ret) = Cardinality(hit)
                   /\ \A k \in 1..Len(last'.ret) :
                          last'.ret[k] = tasks'[KthOf(hit, k)]]_vars

\* A batch_update whose mapping named K-002 and an id that is not stored was
\* made on a store of K-001 and K-002: only K-002 was changed and returned.
C11_Witness ==
    /\ last.op = "batch_update" /\ Len(tasks) = 2
    /\ tasks[1]["id"] = FormatId(1) /\ tasks[2]["id"] = FormatId(2)
    /\ Status(tasks[1]) # Done /\ Status(tasks[2]) = Done
    /\ Updated(tasks[1]) # Now /\ Updated(tasks[2]) = Now
    /\ last.ret = <<tasks[2]>>

\* C12: batch_update stamps updated on every stored task whose id is a key
\* of the mapping, whatever dict is under the key (an empty one too), and
\* returns every such task.
C12_BatchStampsEveryKey ==
    [][\A updates \in BatchArgs :
           BatchCall(updates) =>
               \A i \in 1..Len(tasks) :
                   tasks[i]["id"] \in DOMAIN updates =>
                       /\ Updated(tasks'[i]) = Now
                       /\ \E k \in 1..Len(last'.ret) : last'.ret[k] = tasks'[i]]_vars

\* C13: update_settings merges: afterwards every key of the updates has the
\* value the updates give it, every other key of the previous settings has
\* its previous value, there is no further key, and the call returns the
\* merged settings.
C13_SettingsMerged ==
    [][\A updates \in DocSettingsArgs :
           last'.op = "update_settings" /\ UpdateSettings(updates) =>
               /\ \A key \in DOMAIN updates : settings'[key] = updates[key]
               /\ \A key \in DOMAIN settings \ DOMAIN updates :
                      key \in DOMAIN settings' /\ settings'[key] = settings[key]
               /\ DOMAIN settings' = DOMAIN settings \cup DOMAIN updates
               /\ last'.ret = <<settings'>>]_vars

\* An update_settings call set the theme on settings that earlier calls had
\* filled: the settings returned hold the theme and every setting kept.
C13_Witness ==
    /\ last.op = "update_settings"
    /\ DOMAIN settings = {"theme", "dark_mode", "title", "columns"}
    /\ settings["theme"] = Light /\ settings["dark_mode"] = PyBool(TRUE)
    /\ last.ret = <<settings>>
    /\ LoadDocument(disk).settings = settings

\* C14: at every point of a write, and after a crash at any point of it, the
\* file is the whole document it held before the write or the whole new
\* document, never a part of one.
C14_OldOrNewDocument ==
    /\ disk.n # "partial"
    /\ disk \in {io.old, io.new}
    /\ io.pc = "writing" => disk = io.old

\* The process died when two of the four chunks of a new document were
\* written, and the file is the document of before.
C14_Witness ==
    /\ io.pc = "crashed" /\ Len(io.temp) = 2
    /\ disk # Absent /\ io.new # io.old /\ disk = io.old

\* the calls that write the document
MutatingOps ==
    {"save", "update_status", "update_text", "update_tags", "update_order",
     "delete", "batch_update", "update_settings"}

\* a store constructed from this file would hold these settings and tasks
Agree(file, sett, ts) == LoadDocument(file) = [settings |-> sett, tasks |-> ts]

\* C15: a mutating call whose write fails ends in an error and leaves the
\* file as it was, while the change it made in memory stays (the appended
\* task and the advanced counter for save), so that memory and file, which
\* agreed, agree no longer; the next call whose write goes through makes
\* them agree again.
C15_FailedWriteKeepsMutation ==
    [][/\ (io.mode = "fails" /\ io' = io /\ last'.op \in MutatingOps /\ last'.found
               /\ <<tasks, settings, counter, last>>' # <<tasks, settings, counter, last>>)
           => last'.raised
       /\ last'.raised =>
           /\ disk' = disk
           /\ \A task \in FreshArgs :
                  Save(task) =>
                      /\ Len(tasks') = Len(tasks) + 1
                      /\ tasks'[Len(tasks')]["id"] = FormatId(counter)
                      /\ tasks'[Len(tasks')]["status"] = task["status"]
                      /\ counter' = counter + 1
           /\ \A id \in DocIds :
                  /\ UpdateStatus(id, Done) => Status(tasks'[Target(id)]) = Done
                  /\ UpdateText(id, FailTexts) => tasks'[Target(id)]["text"] = FailTexts
                  /\ UpdateTags(id, TagsX) => tasks'[Target(id)]["tags"] = TagsX
                  /\ UpdateOrder(id, PyInt(1)) => tasks'[Target(id)]["order"] = PyInt(1)
                  /\ Delete(id) => tasks' = RemoveAt(tasks, Target(id))
           /\ BatchUpdate(FailBatch) =>
                  \A i \in 1..Len(tasks) :
                      tasks[i]["id"] = FormatId(1) => tasks'[i]["text"] = PyStr(<<"c">>)
           /\ \A updates \in SettingsArgs :
                  UpdateSettings(updates) =>
                      \A key \in DOMAIN updates : settings'[key] = updates[key]
           /\ (Agree(disk, settings, tasks) /\ <<settings, tasks>>' # <<settings, tasks>>)
                  => ~Agree(disk', settings', tasks')
       /\ (io' = io /\ last'.op \in MutatingOps /\ last'.saves = 1)
           => Agree(disk', settings', tasks')]_vars

\* A save failed to write: the store holds two tasks and the counter is 3,
\* the file still holds one task.
C15_Witness ==
    /\ last.raised /\ last.op = "save"
    /\ Len(tasks) = 2 /\ counter = 3
    /\ disk # Absent /\ Len(LoadDocument(disk).tasks) = 1

C17_UnreadableRaises ==
    (last.op = "load" /\ disk.n = "unreadable") => last.raised

\* C18: a save of a task without a status ends in an error and changes
\* neither the tasks, nor the counter, nor the file.
C18_SaveWithoutStatusFails ==
    [][\A task \in SaveArgs :
           (last'.op = "save" /\ "status" \notin DOMAIN task /\ Save(task))
               => last'.raised /\ UNCHANGED <<tasks, counter, disk>>]_vars

\* C18 as the code has it: a save of a task without a status and without an
\* id succeeds; the task is appended as given, with the next id and the two
\* stamps and with neither a status nor a closed field, the counter
\* advances and the file holds the new list.
C18_SaveWithoutStatusStores ==
    [][\A task \in SaveArgs :
           (last'.op = "save" /\ "status" \notin DOMAIN task /\ Save(task))
               => LET stored == tasks'[Len(tasks')]
                  IN  /\ ~last'.raised /\ last'.ret = <<stored>>
                      /\ Len(tasks') = Len(tasks) + 1
                      /\ SubSeq(tasks', 1, Len(tasks)) = tasks
                      /\ DOMAIN stored = DOMAIN task \cup {"id", "created", "updated"}
                      /\ \A key \in DOMAIN task : stored[key] = task[key]
                      /\ stored["id"] = FormatId(counter)
                      /\ stored["created"] = Now /\ stored["updated"] = Now
                      /\ counter' = counter + 1
                      /\ LoadDocument(disk').tasks = tasks']_vars

\* A task without a status was saved: the store and the file hold it, and
\* it has no status.
C18_Witness ==
    /\ last.op = "save" /\ ~last.raised
    /\ "status" \notin DOMAIN last.ret[1]
    /\ tasks # <<>> /\ tasks[Len(tasks)] = last.ret[1]
    /\ disk # Absent /\ LoadDocument(disk).tasks = tasks

\* C19: a delete of an id that at least one stored task has removes the
\* first of these tasks and nothing else: the tasks before it and after it,
\* a later one with the same id among them, stay as they were and in their
\* order; the call returns True and the file holds the new list; settings
\* and counter stay.
C19_DeleteRemovesFirst ==
    [][\A id \in IdArgs :
           (/\ last'.op = "delete"
            /\ \E i \in 1..Len(tasks) : HasId(tasks[i], id)
            /\ Delete(id))
               => /\ \E i \in 1..Len(tasks) :
                         /\ HasId(tasks[i], id)
                         /\ \A j \in 1..(i - 1) : ~HasId(tasks[j], id)
                         /\ Len(tasks') = Len(tasks) - 1
                         /\ \A j \in 1..(i - 1) : tasks'[j] = tasks[j]
                         /\ \A j \in (i + 1)..Len(tasks) : tasks'[j - 1] = tasks[j]
                  /\ last'.found /\ ~last'.raised /\ last'.saves = 1
                  /\ LoadDocument(disk').tasks = tasks'
                  /\ UNCHANGED <<settings, counter>>]_vars

\* Two tasks had the id K-002, the one save made with the counter and, after
\* it, one saved with its id given; a delete removed the first and the
\* second is still there.
C19_Witness ==
    /\ last.op = "delete" /\ last.found
    /\ counter = 3 /\ Len(tasks) = 1
    /\ tasks[1]["id"] = FormatId(2) /\ "order" \notin DOMAIN tasks[1]

\* C20: all() returns the stored tasks, which stand in the order their
\* saves came; update_order, update_status and batch_update leave every task
\* at its place; when the caller adds to or removes from the list all()
\* returned, the tasks of the store stay as they are.
C20_AllInInsertionOrder ==
    [][/\ IdsOf(tasks') = log'
       /\ (last'.op = "all" /\ All) => last'.ret.items = tasks
       /\ (last'.op \in {"update_order", "update_status", "batch_update"})
              => IdsOf(tasks') = IdsOf(tasks)
       /\ (last.op = "all" /\ last'.op = "all" /\ last'.ret.items # last.ret.items)
              => UNCHANGED <<tasks, disk>>]_vars

\* Two tasks are stored and the board has swapped their orders; the caller
\* got them from all() in the order of their saves and has removed one from
\* its list, the store still has both.
C20_Witness ==
    /\ last.op = "all" /\ Len(last.ret.items) = 1
    /\ Len(tasks) = 2 /\ IdsOf(tasks) = <<FormatId(1), FormatId(2)>>
    /\ last.ret.items = Tail(tasks)
    /\ DictGet(tasks[1], "order", PyNone) = PyInt(2)
    /\ DictGet(tasks[2], "order", PyNone) = PyInt(1)

\* C21: get returns the first stored task with the id, which right after
\* the save that stored it is the record that save returned, or None when
\* no task has the id; it changes neither the tasks, nor the settings, nor
\* the counter, nor the file, nor the change event.
C21_GetReadsOnly ==
    [][\A id \in IdArgs :
           (last'.op = "get" /\ Get(id))
               => /\ UNCHANGED <<tasks, settings, counter, disk, io>>
                  /\ IF \E i \in 1..Len(tasks) : HasId(tasks[i], id)
                     THEN /\ last'.found
                          /\ \E i \in 1..Len(tasks) :
                                 /\ HasId(tasks[i], id)
                                 /\ \A j \in 1..(i - 1) : ~HasId(tasks[j], id)
                                 /\ last'.ret = <<tasks[i]>>
                     ELSE ~last'.found /\ last'.ret = <<>>
                  /\ (/\ last.op = "save" /\ ~last.raised
                      /\ last.ret[1]["id"] = id
                      /\ \A j \in 1..(Len(tasks) - 1) : ~HasId(tasks[j], id))
                         => last'.ret = last.ret]_vars

\* Two different tasks have the same id and get has returned the first.
C21_Witness ==
    /\ last.op = "get" /\ last.found
    /\ Len(tasks) = 2 /\ tasks[1]["id"] = tasks[2]["id"] /\ tasks[1] # tasks[2]
    /\ last.ret = <<tasks[1]>>

\* C22: when the calls of two threads have all returned, the file holds
\* the settings and tasks of the memory.
C22_NoLostUpdate ==
    (\A t \in Threads : io.thr[t].pc = "idle") => Agree(disk, settings, tasks)

\* C23: the file holds the whole document of the store whose write reached
\* it last, as long as that store is not in a new call: its settings and
\* its tasks and nothing of what only the other store holds.
C23_LastWriterWins ==
    (log # <<>> /\ io.thr[log[1]].pc = "idle")
        => Agree(disk, MemoryOf(log[1]).settings, MemoryOf(log[1]).tasks)

\* Store b wrote a document with two tasks, then store a, which had dumped
\* its one task before, replaced the file: the file holds the one task of
\* a, and the two tasks of b are in the memory of b only.
C23_Witness ==
    /\ log = <<"a">>
    /\ io.thr["a"].pc = "idle" /\ io.thr["b"].pc = "idle"
    /\ Len(MemoryOf("a").tasks) = 1 /\ Len(MemoryOf("b").tasks) = 2
    /\ LoadDocument(disk).tasks = MemoryOf("a").tasks

\* C24: the change event is set only when the write of the call has
\* replaced the file, once in a call whose write went through and never in
\* a call whose write failed or that found no task; it is clear again when
\* the call returns and between the calls.
C24_NotifiedAfterPersist ==
    [][/\ (io'.event /\ ~io.event)
              => io.pc = "replaced" /\ disk = io.new /\ io.sets = 0
       /\ (io.pc # "idle" /\ io'.pc = "idle")
              => /\ ~io'.event
                 /\ io'.sets = IF last'.raised THEN 0 ELSE 1
                 /\ ~last'.raised => disk' = io.new
       /\ (io.pc = "idle" /\ io'.pc = "idle") => io' = io /\ ~io.event]_vars

\* After a call whose write failed, the event is set in a call whose write
\* went through: the file holds the new document and the call has not
\* returned yet.
C24_Witness ==
    /\ io.pc = "set" /\ io.event /\ io.sets = 1
    /\ disk = io.new /\ disk # Absent
    /\ last.raised

\* C25: called with the same save, get and all calls from equal tasks and
\* counters, the store and the in-memory repository hold equal tasks and
\* equal counters and return equal values.
C25_SameAsInMemory ==
    /\ tasks = log.tasks
    /\ counter = log.counter
    /\ last.op \in {"save", "get", "all"} => last.ret = log.ret

\* the instant a stamp was taken at, -1 for a text that is no stamp
TimeOf(stamp) ==
    IF \E t \in 0..MaxClock : stamp = IsoFormat(t)
    THEN CHOOSE t \in 0..MaxClock : stamp = IsoFormat(t)
    ELSE 0 - 1

UpdateOps == {"update_status", "update_text", "update_tags", "update_order", "batch_update"}

\* C26: the record a save of a task without an id returns has created equal
\* to updated; an update call that changes a task, made at a later instant
\* than the task's created stamp, leaves created as it was and sets updated
\* to a later instant than created.
C26_UpdatedAfterCreated ==
    [][/\ \A task \in FreshArgs :
              (last'.op = "save" /\ Save(task))
                  => last'.ret[1]["created"] = last'.ret[1]["updated"]
       /\ (last'.op \in UpdateOps /\ Len(tasks') = Len(tasks))
              => \A i \in 1..Len(tasks) :
                     (tasks'[i] # tasks[i] /\ TimeOf(tasks[i]["created"]) < clock)
                         => /\ tasks'[i]["created"] = tasks[i]["created"]
                            /\ TimeOf(tasks'[i]["updated"]) > TimeOf(tasks'[i]["created"])]_vars

\* C27: an update request whose text is empty, or blank, passes the
\* validation, and update_text stores the text it is given, an empty one
\* included.
C27_EmptyTextAccepted ==
    /\ (/\ last.op = "TaskUpdateRequest"
        /\ DOMAIN log[1] = {"text"} /\ IsStr(log[1]["text"])
        /\ Strip(log[1]["text"].v) = <<>>)
           => ~last.raised
    /\ (last.op = "update_text" /\ last.found)
           => \E i \in 1..Len(tasks) : tasks[i] = last.ret[1] /\ tasks[i]["text"] \in RequestTexts

\* C28: a creation request with fields among text, status and tags is
\* rejected when it has no status and accepted when it has one, with or
\* without text and tags.
C28_CreateNeedsOnlyStatus ==
    (last.op = "TaskCreateRequest" /\ DOMAIN log[1] \subseteq {"text", "status", "tags"})
        => (last.raised <=> "status" \notin DOMAIN log[1])

\* C29: when the file is absent and the user refuses to have it created,
\* the process ends with no file written, the server never started and an
\* exit code other than 0.
C29_RefusalFails ==
    (io.pc = "exited" /\ io.refused)
        => disk = Absent /\ ~io.served /\ io.exit # 0

\* C30: when a mutating call that reports success has returned, the file is the
\* two comment lines and the dump of the settings and of all the tasks the
\* memory holds after the call, and a store built from it has these
\* settings and tasks.
C30_PersistedEqualsMemory ==
    (last.op \in MutatingOps /\ last.found /\ ~last.raised)
        => /\ FileText(disk) = DumpDocument(settings, tasks)
           /\ Agree(disk, settings, tasks)

\* update_settings has returned on a store with two tasks: the file holds
\* the settings and both tasks.
C30_Witness ==
    /\ last.op = "update_settings" /\ ~last.raised
    /\ Len(tasks) = 2 /\ settings # EmptyDict
    /\ FileText(disk) = DumpDocument(settings, tasks)
    /\ Len(LoadDocument(disk).tasks) = 2 /\ LoadDocument(disk).settings = settings

\* C31: when the save calls of two threads have all returned, the ids they
\* assigned are pairwise distinct and the counter has advanced by one per
\* call.
C31_ConcurrentSavesDistinct ==
    (io.mode = "savers" /\ InSave = {})
        => /\ \A i, j \in 1..Len(tasks) : tasks[i]["id"] = tasks[j]["id"] => i = j
           /\ counter = Len(tasks) + 1

\* the two records have the same keys with the same values, but for fields
SameExcept(old, new, fields) ==
    \A key \in (DOMAIN old \cup DOMAIN new) \ fields :
        key \in DOMAIN old /\ key \in DOMAIN new /\ old[key] = new[key]

\* the step changed at most these fields of tasks[i], and nothing else of
\* the store
OnlyFieldsOf(i, fields) ==
    /\ Len(tasks') = Len(tasks)
    /\ \A j \in 1..Len(tasks) :
           IF j = i THEN SameExcept(tasks[j], tasks'[j], fields)
           ELSE tasks'[j] = tasks[j]
    /\ settings' = settings
    /\ counter' = counter

\* C32: update_text, update_tags and update_order on a stored id change
\* at most the named field and the updated field of the first task with
\* that id; update_status changes at most its status, updated and closed
\* fields; every other field of that task, every other task, the
\* settings and the counter stay as they were.
C32_UpdateTouchesOneField ==
    [][\A id \in IdArgs :
          /\ \A status \in StatusArgs :
                 StatusCall(id, status)
                     => OnlyFieldsOf(Target(id), {"status", "updated", "closed"})
          /\ \A text \in TextArgs :
                 TextCall(id, text) => OnlyFieldsOf(Target(id), {"text", "updated"})
          /\ \A tags \in TagsArgs :
                 TagsCall(id, tags) => OnlyFieldsOf(Target(id), {"tags", "updated"})
          /\ \A order \in OrderArgs :
                 OrderCall(id, order)
                     => OnlyFieldsOf(Target(id), {"order", "updated"})]_vars

\* An update_order call stamped the second of two tasks at a later instant
\* than the one at which the first, which kept its stamp, was last changed.
C32_Witness ==
    /\ last.op = "update_order" /\ last.found
    /\ Len(tasks) = 2
    /\ last.ret[1] = tasks[2]
    /\ DictGet(tasks[2], "updated", PyNone) = Now
    /\ DictGet(tasks[1], "updated", PyNone) # Now

\* C33: every batch_update call writes the document once, and what it
\* writes is the memory as the call leaves it, with the changes of every
\* task it updated; a call none of whose keys is the id of a stored task
\* (or whose attribute dicts are empty) leaves the tasks as they were and
\* still writes.
C33_BatchWritesOnce ==
    [][\A updates \in BatchArgs :
          BatchCall(updates)
              => /\ last'.saves = 1
                 /\ disk' = Dumped(settings', tasks')
                 /\ (\A i \in 1..Len(tasks) : ~BatchHit(tasks[i], updates))
                        => tasks' = tasks /\ last'.ret = <<>>]_vars

\* A batch_update on a store of one task updated nothing, returned the
\* empty list and wrote the document.
C33_Witness ==
    /\ last.op = "batch_update" /\ last.saves = 1
    /\ last.ret = <<>>
    /\ Len(tasks) = 1
    /\ disk = Dumped(settings, tasks)

\* C34: update_status(id, "done") on a task whose status is done stamps
\* updated and leaves closed as it was; an update_status call gives closed
\* a new value only when it takes a task that was not done to done, and
\* takes closed away only when it takes a done task to another status.
C34_DoneAgainKeepsClosed ==
    [][\A id \in IdArgs, status \in StatusArgs :
          StatusCall(id, status) =>
              LET old == tasks[Target(id)]
                  new == tasks'[Target(id)]
              IN  /\ (status = Done /\ Status(old) = Done)
                         => Updated(new) = Now /\ Closed(new) = Closed(old)
                  /\ (Closed(new) # Closed(old) /\ Closed(new) # PyNone)
                         => Status(old) # Done /\ status = Done
                  /\ (Closed(new) # Closed(old) /\ Closed(new) = PyNone)
                         => Status(old) = Done /\ status \notin {Done, PyNone}]_vars

\* update_status to done found a task that was done since an earlier
\* instant: updated is the instant of the call, closed the earlier one.
C34_Witness ==
    /\ last.op = "update_status" /\ last.found
    /\ Status(last.ret[1]) = Done
    /\ DictGet(last.ret[1], "updated", PyNone) = Now
    /\ Closed(last.ret[1]) \notin {Now, PyNone}

\* the number an id of the form K-<digits> ends with
SuffixOf(id) == DigitRunValue(SubSeq(id.v, 3, Len(id.v)), 0)

\* C35: the ids save generates, in the order it generates them, have
\* strictly increasing numbers, so none is generated twice; deletes and
\* new stores constructed on the file in between do not change that.
C35_GeneratedIdsIncrease ==
    \A i, j \in 1..Len(log) : i < j => SuffixOf(log[i]) < SuffixOf(log[j])

\* C36: the counter is greater than the number of every id of the form
\* K-<digits> that a stored task has.
C36_CounterAboveIds ==
    \A n \in DigitSuffixes(tasks) : counter > n

\* C37: a store built on a document that is a mapping, with its tasks and
\* settings key there, left out or null, is constructed with a mapping for
\* its settings, and no call of all, save or update_settings on it raises.
C37_MappingLoadsUsable ==
    /\ Constructed
    /\ settings # PyNone
    /\ ~last.raised

C39_TagsStoredAsGiven ==
    [][\A id \in IdArgs, tags \in TagLists :
          TagsCall(id, tags)
              => /\ tasks'[Target(id)]["tags"] = tags
                 /\ last'.ret[1]["tags"] = tags
                 /\ LoadDocument(disk').tasks[Target(id)]["tags"] = tags]_vars

\* update_tags stored b, a, b on a task that had other tags, and a new
\* store built from the file has read the same list back.
C39_Witness ==
    /\ last.op = "load" /\ ~last.raised
    /\ Len(tasks) = 2
    /\ DictGet(tasks[2], "tags", PyNone) = PyList(<<TagB, TagA, TagB>>)
    /\ DictGet(tasks[1], "tags", PyNone) = PyList(<<TagA, TagA>>)

====
